---- MODULE Spec2Model ----
(***************************************************************************)
(* Model of the IPMI auto-cabling service (src/src/ipmi_autocabling).      *)
(*                                                                         *)
(* Text values whose characters the code inspects (MAC addresses, port     *)
(* names) are tuples of one-character strings; switch names are opaque     *)
(* strings.  Timestamps (seen_at, last_action_at, run_at) are left out:    *)
(* no decision of the code reads them.                                     *)
(*                                                                         *)
(* Specifications:                                                         *)
(*   Spec     - successive runs of run_once (service.py), step by step     *)
(*   SpecDup  - runs of run_once when two OOB interfaces share a MAC       *)
(*   SpecPair - runs of run_once with a MAC on both switches of an MLAG    *)
(*              pair in every run                                          *)
(*   SpecEmpty - runs of run_once when the inventory may list nothing      *)
(*   SpecBadMac - runs of run_once given a malformed MAC text              *)
(*   SpecCorr - calls of correlate on its own, any order of the entries    *)
(*   SpecMlag - the MLAG peer relation for any configured pairs            *)
(*   SpecDB   - any sequence of state-store operations (state_db.py)       *)
(*   SpecClassify - calls of the port classifier (port_classifier.py)      *)
(*   SpecMac  - calls of the MAC conversions (mac_utils.py)                *)
(*   SpecNorm - calls of normalize_mac (mac_utils.py)                     *)
(*   SpecOid  - calls of oid_suffix_to_mac (mac_utils.py)                 *)
(*   SpecCollect - calls of collect_fdb (fdb_collector.py)                 *)
(*   SpecMain - the process of __main__.py, inventory requests may fail    *)
(*   SpecExit - SpecMain with the state store opened and closed, and     *)
(*              with interrupts                                            *)
(***************************************************************************)
EXTENDS Integers, Sequences, FiniteSets, TLC

VARIABLES
    db,               \* mac_observations: canonical MAC -> row, or NoRow
    run_history,      \* run_history: the number of rows and the last row
    cables,           \* the inventory's cables: [a, b, auto], a an OOB
                      \* interface id, b a switch port id (0: no peer reported)
    dry_run,          \* Config.dry_run
    pc,               \* where run_once stands
    run,              \* number of run_once calls started
    oob_interfaces,   \* run_once: what get_devices_with_oob returned
    all_fdb_entries,  \* run_once: the FDB entries collected from the switches
    results,          \* run_once: the decisions correlate has returned so far,
                      \* each with what _process_result did with it (action)
    idx,              \* index of the interface / result the loop is at
    summary,          \* run_once: the RunSummary
    streak,           \* history: per OOB interface, the (switch, port) its MAC
                      \* was resolved to in the latest runs and in how many
                      \* consecutive runs up to the latest
    prev,             \* history: the entry set and the decision of the
                      \* call of correlate before the current one
    call              \* the last direct state-store operation: its arguments,
                      \* the row get_state returned to it, and what it returned

vars == <<db, run_history, cables, dry_run, pc, run, oob_interfaces,
          all_fdb_entries, results, idx, summary, streak, prev, call>>

\* everything but the state store
serviceVars == <<run_history, cables, dry_run, pc, run, oob_interfaces,
                 all_fdb_entries, results, idx, summary, streak, prev>>

----
(* Bounds of the model *)

\* highest stability_count the state-store specification lets a row reach
MaxCount == 3

\* number of run_once calls in a behaviour of the service
MaxRuns == 3

\* most FDB entries the switches report in one run of the service
MaxFdb == 2

\* most FDB entries given to one call of correlate on its own
MaxCorrFdb == 3

\* number of calls of correlate on its own
MaxCalls == 2

\* runs of run_once in a behaviour of SpecMain
MaxMainRuns == 2

----
(* Characters and text *)

UpperChars == <<"A","B","C","D","E","F","G","H","I","J","K","L","M",
                "N","O","P","Q","R","S","T","U","V","W","X","Y","Z">>
LowerChars == <<"a","b","c","d","e","f","g","h","i","j","k","l","m",
                "n","o","p","q","r","s","t","u","v","w","x","y","z">>
HexDigits == {"0","1","2","3","4","5","6","7","8","9","a","b","c","d","e","f"}
Digits == {"0","1","2","3","4","5","6","7","8","9"}
Whitespace == {" ", "\t", "\n", "\r"}
MacSeparators == {":", "-", "."}

\* str.lower() on one character
LowerChar(c) ==
    IF \E i \in 1..26 : UpperChars[i] = c
    THEN LowerChars[CHOOSE i \in 1..26 : UpperChars[i] = c]
    ELSE c

\* a lower() that leaves upper-case letters as they are
Lower_none(s) == s

\* str.lower()
Lower(s) == [i \in 1..Len(s) |-> LowerChar(s[i])]

\* str.strip(): drop leading and trailing whitespace
Strip(s) ==
    LET keep == {i \in 1..Len(s) : s[i] \notin Whitespace}
        Min(S) == CHOOSE x \in S : \A y \in S : x <= y
        Max(S) == CHOOSE x \in S : \A y \in S : x >= y
    IN  IF keep = {} THEN <<>> ELSE SubSeq(s, Min(keep), Max(keep))

\* re.sub(r"[:\-\.]", "", s): drop every separator character
RECURSIVE RemoveSeparators(_)
RemoveSeparators(s) ==
    IF s = <<>> THEN <<>>
    ELSE IF Head(s) \in MacSeparators THEN RemoveSeparators(Tail(s))
    ELSE <<Head(s)>> \o RemoveSeparators(Tail(s))

\* ":".join(mac_clean[i : i + 2] for i in range(0, 12, 2))
JoinOctets(c) ==
    <<c[1], c[2], ":", c[3], c[4], ":", c[5], c[6], ":",
      c[7], c[8], ":", c[9], c[10], ":", c[11], c[12]>>

\* what normalize_mac gives in place of a result when it raises ValueError
ValueError == <<"ValueError">>

\* normalize_mac(mac)
NormalizeMac(mac) ==
    IF mac = <<>> THEN <<>>
    ELSE LET mac_clean == RemoveSeparators(Lower(Strip(mac)))
         IN  IF Len(mac_clean) # 12 THEN ValueError
             ELSE IF \E i \in 1..12 : mac_clean[i] \notin HexDigits THEN ValueError
             ELSE JoinOctets(mac_clean)

\* the hexadecimal digits in order of value, and the decimal ones
HexDigitSeq == <<"0","1","2","3","4","5","6","7","8","9","a","b","c","d","e","f">>
DecDigitSeq == <<"0","1","2","3","4","5","6","7","8","9">>

\* str.split(sep) on a text without sep at either end: the parts between
\* the separators
RECURSIVE Split(_, _)
Split(s, sep) ==
    IF \A i \in 1..Len(s) : s[i] # sep THEN <<s>>
    ELSE LET i == CHOOSE k \in 1..Len(s) :
                    s[k] = sep /\ \A j \in 1..(k - 1) : s[j] # sep
         IN  <<SubSeq(s, 1, i - 1)>> \o Split(SubSeq(s, i + 1, Len(s)), sep)

\* sep.join(parts)
RECURSIVE Join(_, _)
Join(parts, sep) ==
    IF parts = <<>> THEN <<>>
    ELSE IF Len(parts) = 1 THEN parts[1]
    ELSE parts[1] \o <<sep>> \o Join(Tail(parts), sep)

\* int(text, 16) on a text of hexadecimal digits
RECURSIVE IntHex(_)
IntHex(t) ==
    IF t = <<>> THEN 0
    ELSE 16 * IntHex(SubSeq(t, 1, Len(t) - 1))
         + (CHOOSE v \in 0..15 : HexDigitSeq[v + 1] = t[Len(t)])

\* int(text) on a text of decimal digits
RECURSIVE IntDec(_)
IntDec(t) ==
    IF t = <<>> THEN 0
    ELSE 10 * IntDec(SubSeq(t, 1, Len(t) - 1))
         + (CHOOSE v \in 0..9 : DecDigitSeq[v + 1] = t[Len(t)])

\* str(n) for n >= 0
RECURSIVE StrDec(_)
StrDec(n) ==
    IF n < 10 THEN <<DecDigitSeq[n + 1]>>
    ELSE StrDec(n \div 10) \o <<DecDigitSeq[(n % 10) + 1]>>

\* f"{n:x}" for n >= 0
RECURSIVE StrHex(_)
StrHex(n) ==
    IF n < 16 THEN <<HexDigitSeq[n + 1]>>
    ELSE StrHex(n \div 16) \o <<HexDigitSeq[(n % 16) + 1]>>

\* the format mutated: no padding
Format02x_nopad(n) == StrHex(n)

\* f"{n:02x}" for n >= 0: at least two digits, padded with a zero
Format02x(n) == IF n < 16 THEN <<"0">> \o StrHex(n) ELSE StrHex(n)

\* mac_to_oid_suffix(mac)
MacToOidSuffix(mac) ==
    LET normalized == NormalizeMac(mac)
        octets == Split(normalized, ":")
    IN  IF normalized = ValueError THEN ValueError
        ELSE Join([i \in 1..Len(octets) |-> StrDec(IntHex(octets[i]))], ".")

\* oid_suffix_to_mac(oid_suffix), for parts of decimal digits
OidSuffixToMac(oid_suffix) ==
    LET parts == Split(oid_suffix, ".")
    IN  IF Len(parts) # 6 THEN ValueError
        ELSE IF \E i \in 1..6 : parts[i] = <<>>
                    \/ \E j \in 1..Len(parts[i]) : parts[i][j] \notin Digits
        THEN ValueError
        ELSE Join([i \in 1..6 |-> Format02x(IntDec(parts[i]))], ":")

----
(* Values of the modelled world *)

\* OOB interface MACs as the inventory stores them, and a foreign MAC
MacRaw1 == <<"A","A",":","B","B",":","C","C",":","D","D",":","E","E",":","0","1">>
MacRaw2 == <<"A","A","-","B","B","-","C","C","-","D","D","-","E","E","-","0","2">>
Mac1 == <<"a","a",":","b","b",":","c","c",":","d","d",":","e","e",":","0","1">>
Mac2 == <<"a","a",":","b","b",":","c","c",":","d","d",":","e","e",":","0","2">>
MacX == <<"a","a",":","b","b",":","c","c",":","d","d",":","e","e",":","f","f">>
Macs == {Mac1, Mac2, MacX}

\* normalize_mac tabulated over the MAC texts of the model, so that the
\* correlator's many calls on the same few texts are computed once
NormalizedMacs == [m \in {MacRaw1, MacRaw2, Mac1, Mac2, MacX} |-> NormalizeMac(m)]

\* a call of normalize_mac by the correlator
Normalized(mac) == NormalizedMacs[mac]

Eth1 == <<"E","t","h","1">>
Eth2 == <<"E","t","h","2">>
Po1 == <<"P","o","1">>

Switches == {"sw1", "sw2", "sw3"}

\* SQL NULL / Python None in a switch, port, VLAN, status or cable-id column
NoSwitch == "NULL"
NoPort == <<>>
NoVlan == -1
NoStatus == "NULL"
NoCableId == 0

Vlans == {10, 20}

\* MACStatus
CREATED == "created"
EXISTS == "exists"
SKIP_NON_ACCESS == "skip_non_access"
AMBIGUOUS == "ambiguous"
NOT_FOUND == "not_found"
ERROR == "error"
PENDING == "pending"
MISMATCH == "mismatch"

----
(* Port classifier (port_classifier.py) and its configuration (config.py) *)

\* Config.uplink_ports as the dataclass sets it
UplinkPorts == {<<"X", "e", "1">>}

\* re.search of a literal: the text holds pat as a substring
HasSub(text, pat) ==
    \E i \in 1..(Len(text) - Len(pat) + 1) : SubSeq(text, i, i + Len(pat) - 1) = pat

\* Config.get_uplink_pattern().search(text) for the default uplink_patterns,
\* compiled with re.IGNORECASE:
\*   uplink | to[-_]?spine | trunk | peer | mlag | lag | ^po\d+ | port[-_]?channel
UplinkPatternSearch(text) ==
    LET t == Lower(text)
    IN  \/ HasSub(t, <<"u","p","l","i","n","k">>)
        \/ HasSub(t, <<"t","o","s","p","i","n","e">>)
        \/ HasSub(t, <<"t","o","-","s","p","i","n","e">>)
        \/ HasSub(t, <<"t","o","_","s","p","i","n","e">>)
        \/ HasSub(t, <<"t","r","u","n","k">>)
        \/ HasSub(t, <<"p","e","e","r">>)
        \/ HasSub(t, <<"m","l","a","g">>)
        \/ HasSub(t, <<"l","a","g">>)
        \/ (Len(t) >= 3 /\ t[1] = "p" /\ t[2] = "o" /\ t[3] \in Digits)
        \/ HasSub(t, <<"p","o","r","t","c","h","a","n","n","e","l">>)
        \/ HasSub(t, <<"p","o","r","t","-","c","h","a","n","n","e","l">>)
        \/ HasSub(t, <<"p","o","r","t","_","c","h","a","n","n","e","l">>)

\* no description given to classify (None)
NoDescription == <<>>

\* a description an operator gives an uplink
UplinkText == <<"u", "p", "l", "i", "n", "k">>

\* classify mutated: the LAG hint is looked at before the port name
Classify_lagfirst(port_name, port_description, is_lag_member, lldp_neighbor_is_switch) ==
    IF port_name \in UplinkPorts
    THEN [port_type |-> "uplink", is_allowed |-> FALSE, rule |-> 1]
    ELSE IF port_description # NoDescription /\ UplinkPatternSearch(port_description)
    THEN [port_type |-> "uplink", is_allowed |-> FALSE, rule |-> 2]
    ELSE IF is_lag_member
    THEN [port_type |-> "lag_member", is_allowed |-> FALSE, rule |-> 4]
    ELSE IF UplinkPatternSearch(port_name)
    THEN [port_type |-> "uplink", is_allowed |-> FALSE, rule |-> 3]
    ELSE IF lldp_neighbor_is_switch
    THEN [port_type |-> "uplink", is_allowed |-> FALSE, rule |-> 5]
    ELSE [port_type |-> "access", is_allowed |-> TRUE, rule |-> 6]

\* PortClassifier.classify: the port_type and is_allowed of the first rule
\* that matches
Classify(port_name, port_description, is_lag_member, lldp_neighbor_is_switch) ==
    IF port_name \in UplinkPorts
    THEN [port_type |-> "uplink", is_allowed |-> FALSE, rule |-> 1]
    ELSE IF port_description # NoDescription /\ UplinkPatternSearch(port_description)
    THEN [port_type |-> "uplink", is_allowed |-> FALSE, rule |-> 2]
    ELSE IF UplinkPatternSearch(port_name)
    THEN [port_type |-> "uplink", is_allowed |-> FALSE, rule |-> 3]
    ELSE IF is_lag_member
    THEN [port_type |-> "lag_member", is_allowed |-> FALSE, rule |-> 4]
    ELSE IF lldp_neighbor_is_switch
    THEN [port_type |-> "uplink", is_allowed |-> FALSE, rule |-> 5]
    ELSE [port_type |-> "access", is_allowed |-> TRUE, rule |-> 6]

\* PortClassifier.is_access_port
IsAccessPort(port_name, port_description, is_lag_member, lldp_neighbor_is_switch) ==
    Classify(port_name, port_description, is_lag_member,
             lldp_neighbor_is_switch).is_allowed

----
(* State store (state_db.py) *)

\* get_state found no row
NoRow == [absent |-> TRUE]

\* a row of mac_observations, as MACState reads it
Row(sw, port, vlan, count, status, created, cable_id) ==
    [absent |-> FALSE, switch_name |-> sw, port_name |-> port, vlan |-> vlan,
     stability_count |-> count, last_status |-> status,
     cable_created |-> created, cable_id |-> cable_id]

\* the table right after CREATE TABLE IF NOT EXISTS on a new file
EmptyDB == [m \in Macs |-> NoRow]

\* StateDB.get_state
GetState(d, mac) == d[mac]

\* is_stable mutated: strictly more than the threshold
IsStable_gt(count, threshold) == count > threshold

\* the is_stable returned by update_observation
IsStable(count, threshold) == count >= threshold

\* new_count mutated: the comparison of the port is dropped
NewCount_noport(state, sw, port) ==
    IF state.switch_name = sw THEN state.stability_count + 1 ELSE 1

\* new_count of update_observation for an existing row
NewCount(state, sw, port) ==
    IF state.switch_name = sw /\ state.port_name = port
    THEN state.stability_count + 1
    ELSE 1

\* StateDB.update_observation: the count it returns
ObservationCount(d, mac, sw, port) ==
    IF GetState(d, mac) = NoRow THEN 1 ELSE NewCount(GetState(d, mac), sw, port)

\* StateDB.update_observation: the table it leaves
UpdateObservation(d, mac, sw, port, vlan) ==
    LET state == GetState(d, mac)
    IN  IF state = NoRow
        THEN [d EXCEPT ![mac] = Row(sw, port, vlan, 1, NoStatus, FALSE, NoCableId)]
        ELSE [d EXCEPT ![mac] = [state EXCEPT !.switch_name = sw,
                                               !.port_name = port,
                                               !.vlan = vlan,
                                               !.stability_count = NewCount(state, sw, port)]]

\* update_status mutated: a status other than CREATED also clears the count
UpdateStatus_reset(d, mac, status, cable_id) ==
    LET state == GetState(d, mac)
    IN  IF state = NoRow THEN d
        ELSE IF status = CREATED
        THEN [d EXCEPT ![mac] = [state EXCEPT !.last_status = status,
                                               !.cable_created = TRUE,
                                               !.cable_id = cable_id]]
        ELSE [d EXCEPT ![mac] = [state EXCEPT !.last_status = status,
                                               !.stability_count = 0]]

\* StateDB.update_status: an UPDATE ... WHERE mac = ?, which changes nothing
\* when the MAC has no row
UpdateStatus(d, mac, status, cable_id) ==
    LET state == GetState(d, mac)
    IN  IF state = NoRow THEN d
        ELSE IF status = CREATED
        THEN [d EXCEPT ![mac] = [state EXCEPT !.last_status = status,
                                               !.cable_created = TRUE,
                                               !.cable_id = cable_id]]
        ELSE [d EXCEPT ![mac] = [state EXCEPT !.last_status = status]]

\* mark_not_found mutated: the count of an existing row is left alone
MarkNotFound_keep(d, mac) ==
    LET state == GetState(d, mac)
    IN  IF state # NoRow
        THEN [d EXCEPT ![mac] = [state EXCEPT !.last_status = NOT_FOUND]]
        ELSE [d EXCEPT ![mac] = Row(NoSwitch, NoPort, NoVlan, 0, NOT_FOUND,
                                    FALSE, NoCableId)]

\* mark_not_found mutated: the row is not created when absent
MarkNotFound_noinsert(d, mac) ==
    LET state == GetState(d, mac)
    IN  IF state # NoRow
        THEN [d EXCEPT ![mac] = [state EXCEPT !.stability_count = 0,
                                               !.last_status = NOT_FOUND]]
        ELSE d

\* StateDB.mark_not_found
MarkNotFound(d, mac) ==
    LET state == GetState(d, mac)
    IN  IF state # NoRow
        THEN [d EXCEPT ![mac] = [state EXCEPT !.stability_count = 0,
                                               !.last_status = NOT_FOUND]]
        ELSE [d EXCEPT ![mac] = Row(NoSwitch, NoPort, NoVlan, 0, NOT_FOUND,
                                    FALSE, NoCableId)]

----
(* Configuration (config.py) *)

\* Config.stability_runs
StabilityRuns == 2

\* Config.mlag_groups, from MLAG_GROUPS=sw1:sw2
MlagGroups == << <<"sw1", "sw2">> >>

----
(* Inventory (netbox_client.py, and the inventory service behind it) *)

\* the devices with an OOB IP and the interface the IP is assigned to
OobDevices ==
    << [device_id |-> 1001, interface_id |-> 101, mac_address |-> MacRaw1],
       [device_id |-> 1002, interface_id |-> 102, mac_address |-> MacRaw2] >>

\* the switches of the site, in the order the inventory lists them
SwitchList ==
    << [id |-> 1, name |-> "sw1"], [id |-> 2, name |-> "sw2"],
       [id |-> 3, name |-> "sw3"] >>

\* the switch interfaces the inventory knows (sw3:Eth2 is not among them)
SwitchPorts ==
    { [id |-> 11, device_id |-> 1, name |-> Eth1, description |-> NoDescription],
      [id |-> 12, device_id |-> 1, name |-> Eth2, description |-> NoDescription],
      [id |-> 13, device_id |-> 1, name |-> Po1, description |-> NoDescription],
      [id |-> 21, device_id |-> 2, name |-> Eth1, description |-> UplinkText],
      [id |-> 22, device_id |-> 2, name |-> Eth2, description |-> NoDescription],
      [id |-> 31, device_id |-> 3, name |-> Eth1, description |-> NoDescription] }

\* a termination that is no switch interface: link_peers reports no peer
NoPeer == 0

\* iface.get("cable") read as never set
IfaceHasCable_never(cab, interface_id) == FALSE

\* has_cable of get_devices_with_oob: iface.get("cable") is not None
IfaceHasCable(cab, interface_id) == \E c \in cab : c.a = interface_id

\* name of the device a switch interface belongs to
PeerSwitchName(port_id) ==
    LET p == CHOOSE q \in SwitchPorts : q.id = port_id
    IN  (CHOOSE sw \in {SwitchList[i] : i \in 1..Len(SwitchList)} :
            sw.id = p.device_id).name

\* name of a switch interface
PeerPortName(port_id) == (CHOOSE q \in SwitchPorts : q.id = port_id).name

\* NetBoxClient.get_devices_with_oob: one IPMIInterface per device, with the
\* cable peer taken from link_peers[0] when the interface has a cable
GetDevicesWithOob(cab) ==
    [k \in 1..Len(OobDevices) |->
        LET d == OobDevices[k]
            cs == {c \in cab : c.a = d.interface_id}
            known == cs # {} /\ (CHOOSE c \in cs : TRUE).b # NoPeer
            peer == (CHOOSE c \in cs : TRUE).b
        IN  [device_id |-> d.device_id,
             interface_id |-> d.interface_id,
             mac_address |-> d.mac_address,
             has_cable |-> IfaceHasCable(cab, d.interface_id),
             cable_peer_switch |-> IF known THEN PeerSwitchName(peer) ELSE NoSwitch,
             cable_peer_port |-> IF known THEN PeerPortName(peer) ELSE NoPort]]

\* get_switch_interface_by_name found nothing (None)
NoInterface ==
    [found |-> FALSE, id |-> 0, description |-> NoDescription, has_cable |-> FALSE]

\* NetBoxClient.get_switch_interface_by_name
GetSwitchInterfaceByName(cab, switch_id, interface_name) ==
    LET hits == {p \in SwitchPorts : p.device_id = switch_id /\ p.name = interface_name}
    IN  IF hits = {} THEN NoInterface
        ELSE LET p == CHOOSE q \in hits : TRUE
             IN  [found |-> TRUE, id |-> p.id, description |-> p.description,
                  has_cable |-> \E c \in cab : c.b = p.id]

\* the inventory accepts a POST dcim/cables/ only between two terminations
\* that have no cable yet; otherwise raise_for_status raises HTTPError
InventoryAcceptsCable(cab, a_id, b_id) ==
    ~ \E c \in cab : c.a = a_id \/ c.b = b_id

----
(* Correlator (correlator.py) *)

\* an FDBEntry
FDBEntry(mac, sw, port, vlan) ==
    [mac |-> mac, switch_name |-> sw, port_name |-> port, vlan |-> vlan]

\* no MAC (None)
NoMac == <<"None">>

\* no entry (None)
NoEntry == [mac |-> NoMac, switch_name |-> NoSwitch, port_name |-> NoPort,
            vlan |-> NoVlan]

RECURSIVE BuildPeerMap(_, _)
\* Correlator.__init__: the _mlag_peer_map after the loop over mlag_groups
BuildPeerMap(groups, map) ==
    IF groups = <<>> THEN map
    ELSE LET g == Head(groups)
         IN  BuildPeerMap(Tail(groups),
                          [[map EXCEPT ![g[1]] = g[2]] EXCEPT ![g[2]] = g[1]])

\* Correlator._mlag_peer_map (NoSwitch: the name is no key of the map)
MlagPeerMap == BuildPeerMap(MlagGroups, [s \in Switches |-> NoSwitch])

\* _are_mlag_peers mutated: every two switches are peers
AreMlagPeers_all(switch1, switch2) == TRUE

\* Correlator._are_mlag_peers
AreMlagPeers(switch1, switch2) == MlagPeerMap[switch1] = switch2

\* correlate: switch_map.get(name), NoSwitchInfo for None
NoSwitchInfo == [id |-> 0, name |-> NoSwitch]
SwitchMapGet(switches, name) ==
    LET hits == {i \in 1..Len(switches) : switches[i].name = name}
    IN  IF hits = {} THEN NoSwitchInfo
        ELSE switches[CHOOSE i \in hits : \A j \in hits : j <= i]

\* correlate: mac_to_fdb.get(mac, [])
MacToFdb(entries, mac) == SelectSeq(entries, LAMBDA e : Normalized(e.mac) = mac)

\* correlate: port_to_mac.get((switch, port)), the last entry of the port wins
PortToMac(entries, sw, port) ==
    LET hits == {i \in 1..Len(entries) :
                    entries[i].switch_name = sw /\ entries[i].port_name = port}
    IN  IF hits = {} THEN NoMac
        ELSE Normalized(entries[CHOOSE i \in hits : \A j \in hits : j <= i].mac)

\* _resolve_ambiguity: unique_endpoints
UniqueEndpoints(entries) ==
    {<<entries[i].switch_name, entries[i].port_name>> : i \in 1..Len(entries)}

\* next(e for e in entries if e.switch_name == sw)
FirstOnSwitch(entries, sw) ==
    entries[CHOOSE i \in 1..Len(entries) :
                /\ entries[i].switch_name = sw
                /\ \A j \in 1..(i - 1) : entries[j].switch_name # sw]

\* Correlator._resolve_ambiguity.  `first` is endpoints[0] of
\* list(unique_endpoints): the iteration order of a set of tuples of str
\* follows the strings' hashes, which differ from process to process, so
\* either endpoint can come first.
ResolveAmbiguity(entries, first) ==
    IF Len(entries) = 1 THEN entries[1]
    ELSE LET unique_endpoints == UniqueEndpoints(entries)
         IN  IF Cardinality(unique_endpoints) = 1 THEN entries[1]
             ELSE IF Cardinality(unique_endpoints) = 2
                  THEN LET second == CHOOSE e \in unique_endpoints : e # first
                           sw1 == first[1]
                           port1 == first[2]
                           sw2 == second[1]
                           port2 == second[2]
                       IN  IF port1 = port2 /\ AreMlagPeers(sw1, sw2)
                           THEN FirstOnSwitch(entries, sw1)
                           ELSE NoEntry
                  ELSE NoEntry

\* the orders list(unique_endpoints) can have: what endpoints[0] can be
FirstEndpoints(entries) ==
    IF entries = <<>> THEN {<<NoSwitch, NoPort>>} ELSE UniqueEndpoints(entries)

\* no classification (None)
NoClassification == [port_type |-> "none", is_allowed |-> FALSE, rule |-> 0]

\* a CorrelationResult with the dataclass defaults; ipmi_interface is the
\* position of the interface in the input list.  switch_iface_has_cable is
\* the has_cable the port lookup of this decision returned, and action is
\* what _process_result has done with the decision.
BaseResult(mac, k, ipmi, status, reason) ==
    [mac |-> mac, ipmi_interface |-> k, interface_id |-> ipmi.interface_id,
     ipmi_has_cable |-> ipmi.has_cable, status |-> status, reason |-> reason,
     switch_name |-> NoSwitch, switch_id |-> 0, port_name |-> NoPort,
     port_id |-> 0, vlan |-> NoVlan, port_classification |-> NoClassification,
     stability_count |-> 0, is_stable |-> FALSE,
     expected_mac |-> NoMac, actual_mac |-> NoMac,
     switch_iface_has_cable |-> FALSE, action |-> "none"]

\* no result (None)
NoResult == [status |-> "none"]

\* _check_mismatch mutated: the interface MAC is compared as the inventory
\* writes it
CheckMismatch_raw(k, ipmi, entries) ==
    IF ipmi.cable_peer_switch = NoSwitch \/ ipmi.cable_peer_port = NoPort
    THEN NoResult
    ELSE LET expected_mac == ipmi.mac_address
             actual_mac == PortToMac(entries, ipmi.cable_peer_switch,
                                     ipmi.cable_peer_port)
         IN  IF actual_mac = NoMac THEN NoResult
             ELSE IF actual_mac # expected_mac
             THEN [BaseResult(expected_mac, k, ipmi, MISMATCH, "mac mismatch")
                      EXCEPT !.switch_name = ipmi.cable_peer_switch,
                             !.port_name = ipmi.cable_peer_port,
                             !.expected_mac = expected_mac,
                             !.actual_mac = actual_mac]
             ELSE NoResult

\* Correlator._check_mismatch
CheckMismatch(k, ipmi, entries) ==
    IF ipmi.cable_peer_switch = NoSwitch \/ ipmi.cable_peer_port = NoPort
    THEN NoResult
    ELSE LET expected_mac == Normalized(ipmi.mac_address)
             actual_mac == PortToMac(entries, ipmi.cable_peer_switch,
                                     ipmi.cable_peer_port)
         IN  IF actual_mac = NoMac THEN NoResult
             ELSE IF actual_mac # expected_mac
             THEN [BaseResult(expected_mac, k, ipmi, MISMATCH, "mac mismatch")
                      EXCEPT !.switch_name = ipmi.cable_peer_switch,
                             !.port_name = ipmi.cable_peer_port,
                             !.expected_mac = expected_mac,
                             !.actual_mac = actual_mac]
             ELSE NoResult

\* _correlate_one from the port classification on: best_entry is accepted and
\* its switch is known.  Gives the result, the table, and whether
\* update_observation was called.
CorrelateResolved(k, ipmi, mac, best_entry, switch_info, d, cab) ==
    LET port_classification == Classify(best_entry.port_name, NoDescription,
                                        FALSE, FALSE)
        located == [BaseResult(mac, k, ipmi, PENDING, "located")
                       EXCEPT !.switch_name = best_entry.switch_name,
                              !.switch_id = switch_info.id,
                              !.port_name = best_entry.port_name,
                              !.vlan = best_entry.vlan,
                              !.port_classification = port_classification]
    IN  IF ~ port_classification.is_allowed
        THEN [result |-> [located EXCEPT !.status = SKIP_NON_ACCESS,
                                         !.reason = "port not allowed"],
              db |-> UpdateStatus(d, mac, SKIP_NON_ACCESS, NoCableId),
              observed |-> FALSE]
        ELSE LET stability_count ==
                     ObservationCount(d, mac, best_entry.switch_name,
                                      best_entry.port_name)
                 is_stable == IsStable(stability_count, StabilityRuns)
                 d2 == UpdateObservation(d, mac, best_entry.switch_name,
                                         best_entry.port_name, best_entry.vlan)
                 switch_iface == GetSwitchInterfaceByName(cab, switch_info.id,
                                                          best_entry.port_name)
                 counted == [located EXCEPT !.stability_count = stability_count,
                                            !.is_stable = is_stable]
             IN  IF ~ switch_iface.found
                 THEN [result |-> [counted EXCEPT !.status = ERROR,
                                                  !.reason = "interface not found"],
                       db |-> d2, observed |-> TRUE]
                 ELSE IF switch_iface.has_cable
                 THEN [result |-> [counted EXCEPT !.status = SKIP_NON_ACCESS,
                                                  !.reason = "port already has cable",
                                                  !.port_id = switch_iface.id,
                                                  !.switch_iface_has_cable = TRUE],
                       db |-> d2, observed |-> TRUE]
                 ELSE IF ~ is_stable
                 THEN [result |-> [counted EXCEPT !.reason = "waiting for stability",
                                                  !.port_id = switch_iface.id],
                       db |-> d2, observed |-> TRUE]
                 ELSE [result |-> [counted EXCEPT !.reason = "ready for cable creation",
                                                  !.port_id = switch_iface.id],
                       db |-> d2, observed |-> TRUE]

\* Correlator._correlate_one for the k-th interface: the result, the table it
\* leaves, and whether update_observation was called
CorrelateOneResult(k, ipmi, entries, switches, d, cab, first) ==
    LET mac == Normalized(ipmi.mac_address)
        mismatch == CheckMismatch(k, ipmi, entries)
        fdb_entries == MacToFdb(entries, mac)
        best_entry == ResolveAmbiguity(fdb_entries, first)
        switch_info == SwitchMapGet(switches, best_entry.switch_name)
    IN  IF ipmi.has_cable
        THEN [result |-> IF mismatch # NoResult THEN mismatch
                         ELSE BaseResult(mac, k, ipmi, EXISTS, "already has cable"),
              db |-> d, observed |-> FALSE]
        ELSE IF fdb_entries = <<>>
        THEN [result |-> BaseResult(mac, k, ipmi, NOT_FOUND, "not in any FDB"),
              db |-> MarkNotFound(d, mac), observed |-> FALSE]
        ELSE IF best_entry = NoEntry
        THEN [result |-> BaseResult(mac, k, ipmi, AMBIGUOUS, "multiple endpoints"),
              db |-> d, observed |-> FALSE]
        ELSE IF switch_info = NoSwitchInfo
        THEN [result |-> BaseResult(mac, k, ipmi, ERROR, "switch not found"),
              db |-> d, observed |-> FALSE]
        ELSE CorrelateResolved(k, ipmi, mac, best_entry, switch_info, d, cab)

----
(* Orchestrator (service.py) *)

\* RunSummary()
EmptySummary ==
    [total_ipmi |-> 0, created |-> 0, exists |-> 0, skipped |-> 0,
     ambiguous |-> 0, not_found |-> 0, pending |-> 0, errors |-> 0,
     mismatch |-> 0]

\* run_history before the first record_run
EmptyHistory == [rows |-> 0, last |-> EmptySummary]

\* StateDB.record_run: the row appended to run_history (it has no column for
\* pending or mismatch)
RecordRunRow(s) ==
    [total_macs |-> s.total_ipmi, cnt_created |-> s.created,
     cnt_exists |-> s.exists, cnt_skipped |-> s.skipped,
     cnt_ambiguous |-> s.ambiguous, cnt_not_found |-> s.not_found,
     cnt_errors |-> s.errors]

\* the guard of cable creation mutated: the stability of the decision is not
\* looked at
ShouldCreate_unstable(result) == result.port_id # 0

\* _process_result: `if result.is_stable and result.port_id`
ShouldCreate(result) == result.is_stable /\ result.port_id # 0

\* _create_cable mutated: the dry_run flag is not looked at
CreateOutcomes_nodry(dry, cab, result) ==
    IF InventoryAcceptsCable(cab, result.interface_id, result.port_id)
    THEN {"created", "create_failed"}
    ELSE {"create_failed"}

\* what _create_cable can return for a decision: with dry_run create_cable
\* logs and returns None; otherwise the POST either succeeds, when the
\* inventory accepts the cable, or raises and _create_cable returns None
CreateOutcomes(dry, cab, result) ==
    IF dry THEN {"dry_run"}
    ELSE IF InventoryAcceptsCable(cab, result.interface_id, result.port_id)
    THEN {"created", "create_failed"}
    ELSE {"create_failed"}

\* _process_result mutated: the branch for a stable decision whose cable was
\* not created is followed by the branch for a decision waiting for stability
ProcessSummary_fallthrough(s, result, outcome) ==
    IF result.status = MISMATCH THEN [s EXCEPT !.mismatch = @ + 1]
    ELSE IF result.status = EXISTS THEN [s EXCEPT !.exists = @ + 1]
    ELSE IF result.status = NOT_FOUND THEN [s EXCEPT !.not_found = @ + 1]
    ELSE IF result.status = AMBIGUOUS THEN [s EXCEPT !.ambiguous = @ + 1]
    ELSE IF result.status = SKIP_NON_ACCESS THEN [s EXCEPT !.skipped = @ + 1]
    ELSE IF result.status = ERROR THEN [s EXCEPT !.errors = @ + 1]
    ELSE IF result.status = PENDING
    THEN IF ShouldCreate(result)
         THEN IF outcome = "created" THEN [s EXCEPT !.created = @ + 1]
              ELSE [s EXCEPT !.errors = @ + 1, !.pending = @ + 1]
         ELSE [s EXCEPT !.pending = @ + 1]
    ELSE s

\* _process_result: the summary after the decision, given what _create_cable
\* returned when it was called
ProcessSummary(s, result, outcome) ==
    IF result.status = MISMATCH THEN [s EXCEPT !.mismatch = @ + 1]
    ELSE IF result.status = EXISTS THEN [s EXCEPT !.exists = @ + 1]
    ELSE IF result.status = NOT_FOUND THEN [s EXCEPT !.not_found = @ + 1]
    ELSE IF result.status = AMBIGUOUS THEN [s EXCEPT !.ambiguous = @ + 1]
    ELSE IF result.status = SKIP_NON_ACCESS THEN [s EXCEPT !.skipped = @ + 1]
    ELSE IF result.status = ERROR THEN [s EXCEPT !.errors = @ + 1]
    ELSE IF result.status = PENDING
    THEN IF ShouldCreate(result)
         THEN IF outcome = "created" THEN [s EXCEPT !.created = @ + 1]
              ELSE [s EXCEPT !.errors = @ + 1]
         ELSE [s EXCEPT !.pending = @ + 1]
    ELSE s

\* id the inventory gives a new cable
NewCableId(cab) == Cardinality(cab) + 1

\* _process_result mutated: the status of every decision is written to the
\* row of its MAC
ProcessDB_stamp(d, cab, result, outcome) ==
    IF result.status = PENDING /\ ShouldCreate(result)
    THEN IF outcome = "created"
         THEN UpdateStatus(d, result.mac, CREATED, NewCableId(cab))
         ELSE UpdateStatus(d, result.mac, ERROR, NoCableId)
    ELSE UpdateStatus(d, result.mac, result.status, NoCableId)

\* _process_result: the table after the decision
ProcessDB(d, cab, result, outcome) ==
    IF result.status = PENDING /\ ShouldCreate(result)
    THEN IF outcome = "created"
         THEN UpdateStatus(d, result.mac, CREATED, NewCableId(cab))
         ELSE UpdateStatus(d, result.mac, ERROR, NoCableId)
    ELSE d

\* the inventory's cables after _process_result
ProcessCables(cab, result, outcome) ==
    IF result.status = PENDING /\ ShouldCreate(result) /\ outcome = "created"
    THEN cab \cup {[a |-> result.interface_id, b |-> result.port_id, auto |-> TRUE]}
    ELSE cab

\* the (switch, port) an FDB entry can name in a run of the service: an
\* MLAG pair on one port name, a switch interface the inventory does not
\* know, and an uplink
RunEndpoints == {<<"sw1", Eth1>>, <<"sw2", Eth1>>, <<"sw3", Eth2>>, <<"sw1", Po1>>}

\* the FDB entries a switch can report in a run; the collector normalizes
\* the MAC on ingress
RunEntries == {FDBEntry(m, e[1], e[2], 10) : m \in {Mac1, Mac2}, e \in RunEndpoints}

\* position of a switch in the list run_once polls
SwitchOrder(name) == CHOOSE i \in 1..Len(SwitchList) : SwitchList[i].name = name

\* all_fdb_entries of run_once: the per-switch results one after the other in
\* the order of the switches; a switch that fails or has no IP gives none
FdbLists ==
    {f \in UNION {[1..n -> RunEntries] : n \in 0..MaxFdb} :
        \A i \in 1..Len(f), j \in 1..Len(f) :
            i < j => SwitchOrder(f[i].switch_name) <= SwitchOrder(f[j].switch_name)}

\* streak before the first run
NoEndpoint == <<NoSwitch, NoPort>>
EmptyStreak == [k \in 1..Len(OobDevices) |-> [endpoint |-> NoEndpoint, n |-> 0]]

\* streak after a decision: the run resolved the MAC to (switch, port) of r
\* when update_observation was called, and to nothing otherwise
NextStreak(st, r, observed) ==
    IF ~ observed THEN [endpoint |-> NoEndpoint, n |-> 0]
    ELSE IF st.endpoint = <<r.switch_name, r.port_name>>
    THEN [st EXCEPT !.n = @ + 1]
    ELSE [endpoint |-> <<r.switch_name, r.port_name>>, n |-> 1]

\* what `call` holds before the first operation
\* (unobserved: the MACs marked not found and not observed since)
NoCall == [op |-> "none", unobserved |-> {}]

\* prev before the first call of correlate on its own
NoPrev == [valid |-> FALSE]

\* the inventories a behaviour can start from: no cable; interface 102 cabled
\* to something that is no switch interface; interface 102 cabled to sw2:Eth1;
\* sw1:Eth1 cabled to some other device
InitialCables ==
    { {},
      {[a |-> 102, b |-> NoPeer, auto |-> FALSE]},
      {[a |-> 102, b |-> 21, auto |-> FALSE]},
      {[a |-> 999, b |-> 11, auto |-> FALSE]} }

\* after IPMIAutoCablingService.__init__ on a new state file
Init ==
    /\ db = EmptyDB
    /\ run_history = EmptyHistory
    /\ cables \in InitialCables
    /\ dry_run \in BOOLEAN
    /\ pc = "idle"
    /\ run = 0
    /\ oob_interfaces = <<>>
    /\ all_fdb_entries = <<>>
    /\ results = <<>>
    /\ idx = 0
    /\ summary = EmptySummary
    /\ streak = EmptyStreak
    /\ prev = NoPrev
    /\ call = NoCall

\* run_once up to the call of correlate: list the OOB interfaces and the
\* switches, collect the FDB of every switch
StartRun ==
    /\ pc = "idle"
    /\ run < MaxRuns
    /\ run' = run + 1
    /\ oob_interfaces' = GetDevicesWithOob(cables)
    /\ summary' = [EmptySummary EXCEPT !.total_ipmi = Len(GetDevicesWithOob(cables))]
    /\ results' = <<>>
    /\ IF GetDevicesWithOob(cables) = <<>> \/ SwitchList = <<>>
       THEN /\ all_fdb_entries' = <<>>
            /\ pc' = "idle"
            /\ idx' = 0
       ELSE /\ all_fdb_entries' \in FdbLists
            /\ pc' = "correlate"
            /\ idx' = 1
    /\ UNCHANGED <<db, run_history, cables, dry_run, streak, prev, call>>

\* correlate: one turn of the loop over ipmi_interfaces (_correlate_one)
CorrelateOne ==
    /\ pc = "correlate"
    /\ \E first \in FirstEndpoints(MacToFdb(all_fdb_entries,
                        Normalized(oob_interfaces[idx].mac_address))) :
        LET out == CorrelateOneResult(idx, oob_interfaces[idx], all_fdb_entries,
                                      SwitchList, db, cables, first)
        IN  /\ results' = Append(results, out.result)
            /\ db' = out.db
            /\ streak' = [streak EXCEPT
                            ![idx] = NextStreak(@, out.result, out.observed)]
    /\ IF idx < Len(oob_interfaces)
       THEN /\ idx' = idx + 1
            /\ pc' = pc
       ELSE /\ idx' = 1
            /\ pc' = "process"
    /\ UNCHANGED <<run_history, cables, dry_run, run, oob_interfaces,
                   all_fdb_entries, summary, prev, call>>

\* run_once: one turn of the loop over results (_process_result)
ProcessResult ==
    /\ pc = "process"
    /\ \E outcome \in CreateOutcomes(dry_run, cables, results[idx]) :
        LET result == results[idx]
            called == result.status = PENDING /\ ShouldCreate(result)
        IN  /\ summary' = ProcessSummary(summary, result, outcome)
            /\ db' = ProcessDB(db, cables, result, outcome)
            /\ cables' = ProcessCables(cables, result, outcome)
            /\ results' = [results EXCEPT ![idx].action =
                              IF called THEN outcome ELSE "none"]
    /\ IF idx < Len(results)
       THEN /\ idx' = idx + 1
            /\ pc' = pc
       ELSE /\ idx' = 0
            /\ pc' = "record"
    /\ UNCHANGED <<run_history, dry_run, run, oob_interfaces, all_fdb_entries,
                   streak, prev, call>>

\* run_once: record_run and return summary
RecordRun ==
    /\ pc = "record"
    /\ run_history' = [rows |-> run_history.rows + 1, last |-> RecordRunRow(summary)]
    /\ pc' = "idle"
    /\ results' = <<>>
    /\ all_fdb_entries' = <<>>
    /\ oob_interfaces' = <<>>
    /\ UNCHANGED <<db, cables, dry_run, run, idx, summary, streak, prev, call>>

Next == StartRun \/ CorrelateOne \/ ProcessResult \/ RecordRun

Spec == Init /\ [][Next]_vars

----
(* SpecDup: runs of run_once on an inventory in which the OOB interfaces of *)
(* two devices carry the same MAC address                                  *)

\* get_devices_with_oob on that inventory: it lists one IPMIInterface per
\* device and compares no MAC addresses
SameMacInterfaces(cab) ==
    [k \in 1..Len(OobDevices) |->
        [GetDevicesWithOob(cab)[k] EXCEPT !.mac_address = MacRaw1]]

\* run_once up to the call of correlate; prev keeps the state store as the
\* run found it
StartRunSameMac ==
    /\ pc = "idle"
    /\ run < MaxRuns
    /\ run' = run + 1
    /\ oob_interfaces' = SameMacInterfaces(cables)
    /\ summary' = [EmptySummary EXCEPT !.total_ipmi = Len(SameMacInterfaces(cables))]
    /\ results' = <<>>
    /\ all_fdb_entries' \in FdbLists
    /\ pc' = "correlate"
    /\ idx' = 1
    /\ prev' = [valid |-> TRUE, db |-> db]
    /\ UNCHANGED <<db, run_history, cables, dry_run, streak, call>>

NextDup == StartRunSameMac \/ CorrelateOne \/ ProcessResult \/ RecordRun

SpecDup == Init /\ [][NextDup]_vars

----
(* SpecPair: runs of run_once in which the MAC of interface 101 is seen in *)
(* every run on Eth1 of both switches of the MLAG pair sw1:sw2, and        *)
(* nowhere else                                                            *)

\* all_fdb_entries of such a run: the two sightings of the first MAC, and
\* at most one sighting of the other MAC, in the order of the switches
PairFdbLists ==
    {f \in [1..2 -> RunEntries] \cup [1..3 -> RunEntries] :
        /\ \A i \in 1..Len(f), j \in 1..Len(f) :
            i < j => SwitchOrder(f[i].switch_name) <= SwitchOrder(f[j].switch_name)
        /\ UniqueEndpoints(MacToFdb(f, Mac1)) = {<<"sw1", Eth1>>, <<"sw2", Eth1>>}
        /\ Len(MacToFdb(f, Mac1)) = 2}

\* the service starts on an inventory without cables
InitPair == Init /\ cables = {}

\* run_once up to the call of correlate
StartRunOnPair ==
    /\ pc = "idle"
    /\ run < MaxRuns
    /\ run' = run + 1
    /\ oob_interfaces' = GetDevicesWithOob(cables)
    /\ summary' = [EmptySummary EXCEPT !.total_ipmi = Len(GetDevicesWithOob(cables))]
    /\ results' = <<>>
    /\ all_fdb_entries' \in PairFdbLists
    /\ pc' = "correlate"
    /\ idx' = 1
    /\ UNCHANGED <<db, run_history, cables, dry_run, streak, prev, call>>

NextPair == StartRunOnPair \/ CorrelateOne \/ ProcessResult \/ RecordRun

SpecPair == InitPair /\ [][NextPair]_vars

----
(* SpecEmpty: runs of run_once on an inventory that may list no device with *)
(* an OOB IP, or no switch for the sites of the devices                     *)

\* run_once when get_devices_with_oob or get_switches returns an empty list:
\* it logs a warning and returns the summary
StartRunNothingToDo ==
    /\ pc = "idle"
    /\ run < MaxRuns
    /\ run' = run + 1
    /\ \E no_devices \in BOOLEAN :
        LET found == IF no_devices THEN <<>> ELSE GetDevicesWithOob(cables)
        IN  /\ oob_interfaces' = found
            /\ summary' = [EmptySummary EXCEPT !.total_ipmi = Len(found)]
    /\ results' = <<>>
    /\ all_fdb_entries' = <<>>
    /\ idx' = 0
    /\ pc' = "idle"
    /\ UNCHANGED <<db, run_history, cables, dry_run, streak, prev, call>>

NextEmpty ==
    StartRun \/ StartRunNothingToDo \/ CorrelateOne \/ ProcessResult \/ RecordRun

SpecEmpty == Init /\ [][NextEmpty]_vars

----
(* SpecBadMac: runs of run_once in which the inventory or a switch *)
(* reports a text that is no MAC address                           *)

\* a mac_address that normalize_mac rejects
MalformedMac == <<"A","A",":","B","B",":","C","C">>

\* whether normalize_mac raises ValueError, tabulated over the MAC texts of
\* this specification
RejectedMacs ==
    [m \in {MacRaw1, MacRaw2, Mac1, Mac2, MacX, MalformedMac} |->
        NormalizeMac(m) = ValueError]

\* normalize_mac raises ValueError for the text
Rejected(mac) == RejectedMacs[mac]

\* run_once up to the call of correlate when the OOB interface of one device
\* carries the malformed text; the run before, if any, has raised and the
\* loop of run_daemon has gone on
StartRunMalformedOob ==
    /\ pc \in {"idle", "failed"}
    /\ run < MaxRuns
    /\ run' = run + 1
    /\ \E k \in 1..Len(OobDevices) :
        oob_interfaces' =
            [GetDevicesWithOob(cables) EXCEPT ![k].mac_address = MalformedMac]
    /\ summary' = [EmptySummary EXCEPT !.total_ipmi = Len(GetDevicesWithOob(cables))]
    /\ results' = <<>>
    /\ all_fdb_entries' \in FdbLists
    /\ pc' = "correlate"
    /\ idx' = 1
    /\ UNCHANGED <<db, run_history, cables, dry_run, streak, prev, call>>

\* run_once up to the call of correlate when the first FDB entry collected
\* carries the malformed text
StartRunMalformedFdb ==
    /\ pc \in {"idle", "failed"}
    /\ run < MaxRuns
    /\ run' = run + 1
    /\ oob_interfaces' = GetDevicesWithOob(cables)
    /\ summary' = [EmptySummary EXCEPT !.total_ipmi = Len(GetDevicesWithOob(cables))]
    /\ results' = <<>>
    /\ \E f \in FdbLists :
        /\ f # <<>>
        /\ all_fdb_entries' = [f EXCEPT ![1].mac = MalformedMac]
    /\ pc' = "correlate"
    /\ idx' = 1
    /\ UNCHANGED <<db, run_history, cables, dry_run, streak, prev, call>>

\* normalize_mac raises in correlate: on an FDB entry while mac_to_fdb is
\* built, before the first interface, or on the interface the loop is at
CorrelateRaisesNow ==
    IF \E i \in 1..Len(all_fdb_entries) : Rejected(all_fdb_entries[i].mac)
    THEN idx = 1
    ELSE Rejected(oob_interfaces[idx].mac_address)

\* correlate: ValueError leaves _correlate_one, correlate and run_once; the
\* results collected so far are dropped with the frame of correlate
CorrelateRaises ==
    /\ pc = "correlate"
    /\ CorrelateRaisesNow
    /\ pc' = "failed"
    /\ results' = <<>>
    /\ UNCHANGED <<db, run_history, cables, dry_run, run, oob_interfaces,
                   all_fdb_entries, idx, summary, streak, prev, call>>

\* correlate: one turn of the loop when nothing raises
CorrelateOneValid ==
    /\ pc = "correlate"
    /\ ~ CorrelateRaisesNow
    /\ CorrelateOne

NextBadMac ==
    \/ StartRunMalformedOob
    \/ StartRunMalformedFdb
    \/ CorrelateOneValid
    \/ CorrelateRaises

SpecBadMac == Init /\ [][NextBadMac]_vars

----
(* SpecCorr: calls of correlate on its own, for one uncabled interface *)

\* the (switch, port) an FDB entry can name: the MLAG pair on one port name,
\* a peer on another port name, and a switch outside the pair
CorrEndpoints == {<<"sw1", Eth1>>, <<"sw2", Eth1>>, <<"sw2", Eth2>>, <<"sw3", Eth1>>}

\* the FDB entries given to correlate
CorrEntries == {FDBEntry(Mac1, e[1], e[2], v) : e \in CorrEndpoints, v \in Vlans}

\* fdb_entries in any order
CorrFdbLists == UNION {[1..n -> CorrEntries] : n \in 0..MaxCorrFdb}

\* the entries of a list, as a set
EntrySet(entries) == {entries[i] : i \in 1..Len(entries)}

InitCorr ==
    /\ db = EmptyDB
    /\ run_history = EmptyHistory
    /\ cables = {}
    /\ dry_run = FALSE
    /\ pc = "idle"
    /\ run = 0
    /\ oob_interfaces = <<>>
    /\ all_fdb_entries = <<>>
    /\ results = <<>>
    /\ idx = 0
    /\ summary = EmptySummary
    /\ streak = EmptyStreak
    /\ prev = NoPrev
    /\ call = NoCall

\* a caller invokes correlate([interface 101], fdb_entries, switches); the
\* call before it, if any, has returned
CallCorrelate ==
    /\ pc \in {"idle", "process"}
    /\ run < MaxCalls
    /\ run' = run + 1
    /\ prev' = IF pc = "process"
               THEN [valid |-> TRUE, entries |-> EntrySet(all_fdb_entries),
                     switch_name |-> results[1].switch_name,
                     port_name |-> results[1].port_name,
                     status |-> results[1].status]
               ELSE NoPrev
    /\ oob_interfaces' = SubSeq(GetDevicesWithOob(cables), 1, 1)
    /\ all_fdb_entries' \in CorrFdbLists
    /\ results' = <<>>
    /\ idx' = 1
    /\ pc' = "correlate"
    /\ UNCHANGED <<db, run_history, cables, dry_run, summary, streak, call>>

NextCorr == CallCorrelate \/ CorrelateOne

SpecCorr == InitCorr /\ [][NextCorr]_vars

----
(* SpecMlag: the MLAG peer map of a Correlator built from any configured *)
(* pairs, and calls of _are_mlag_peers on it                             *)

\* Config.mlag_groups as MLAG_GROUPS can give it: up to two pairs of
\* different switch names, a name possibly in both pairs
MlagConfigurations ==
    UNION {[1..n -> {p \in Switches \X Switches : p[1] # p[2]}] : n \in 0..2}

\* Correlator._are_mlag_peers on a given _mlag_peer_map
AreMlagPeersIn(map, switch1, switch2) == map[switch1] = switch2

\* after Correlator.__init__
InitMlag ==
    /\ db = EmptyDB
    /\ run_history = EmptyHistory
    /\ cables = {}
    /\ dry_run = FALSE
    /\ pc = "idle"
    /\ run = 0
    /\ oob_interfaces = <<>>
    /\ all_fdb_entries = <<>>
    /\ results = <<>>
    /\ idx = 0
    /\ summary = EmptySummary
    /\ streak = EmptyStreak
    /\ prev = NoPrev
    /\ \E groups \in MlagConfigurations :
        call = [op |-> "init", unobserved |-> {}, mlag_groups |-> groups,
                mlag_peer_map |-> BuildPeerMap(groups, [s \in Switches |-> NoSwitch])]

\* a caller asks whether two switches are peers, in both orders
CallAreMlagPeers ==
    /\ \E a \in Switches, b \in Switches :
        call' = [op |-> "are_mlag_peers", unobserved |-> {},
                 mlag_groups |-> call.mlag_groups,
                 mlag_peer_map |-> call.mlag_peer_map,
                 switch1 |-> a, switch2 |-> b,
                 peers |-> AreMlagPeersIn(call.mlag_peer_map, a, b),
                 peers_reversed |-> AreMlagPeersIn(call.mlag_peer_map, b, a)]
    /\ UNCHANGED <<db, serviceVars>>

NextMlag == CallAreMlagPeers

SpecMlag == InitMlag /\ [][NextMlag]_vars

----
(* SpecDB: any sequence of state-store operations *)

\* thresholds the state-store operations are exercised with
Thresholds == {1, 2, 3}

DbMacs == {Mac1}
DbSwitches == {"sw1", "sw2"}
DbPorts == {Eth1, Eth2}
DbVlans == {10, 20, NoVlan}

InitDB ==
    /\ db = EmptyDB
    /\ call = NoCall
    /\ run_history = EmptyHistory
    /\ cables = {}
    /\ dry_run = FALSE
    /\ pc = "idle"
    /\ run = 0
    /\ oob_interfaces = <<>>
    /\ all_fdb_entries = <<>>
    /\ results = <<>>
    /\ idx = 0
    /\ summary = EmptySummary
    /\ streak = EmptyStreak
    /\ prev = NoPrev

\* a caller invokes update_observation(mac, switch_name, port_name, vlan, T)
DbUpdateObservation ==
    \E mac \in DbMacs, sw \in DbSwitches, port \in DbPorts, vlan \in DbVlans,
       T \in Thresholds :
        /\ ObservationCount(db, mac, sw, port) <= MaxCount
        /\ db' = UpdateObservation(db, mac, sw, port, vlan)
        /\ call' = [op |-> "update_observation", mac |-> mac, switch_name |-> sw,
                    port_name |-> port, vlan |-> vlan, threshold |-> T,
                    state |-> GetState(db, mac),
                    after_not_found |-> mac \in call.unobserved,
                    unobserved |-> call.unobserved \ {mac},
                    count |-> ObservationCount(db, mac, sw, port),
                    is_stable |-> IsStable(ObservationCount(db, mac, sw, port), T)]
        /\ UNCHANGED serviceVars

\* a caller invokes mark_not_found(mac)
DbMarkNotFound ==
    \E mac \in DbMacs :
        /\ db' = MarkNotFound(db, mac)
        /\ call' = [op |-> "mark_not_found", mac |-> mac,
                    unobserved |-> call.unobserved \cup {mac},
                    state |-> GetState(db, mac)]
        /\ UNCHANGED serviceVars

\* a caller invokes update_status(mac, status, cable_id)
DbUpdateStatus ==
    \E mac \in DbMacs, status \in {CREATED, ERROR, SKIP_NON_ACCESS} :
        /\ db' = UpdateStatus(db, mac, status,
                              IF status = CREATED THEN 1 ELSE NoCableId)
        /\ call' = [op |-> "update_status", mac |-> mac, status |-> status,
                    unobserved |-> call.unobserved,
                    state |-> GetState(db, mac)]
        /\ UNCHANGED serviceVars

NextDB == DbUpdateObservation \/ DbMarkNotFound \/ DbUpdateStatus

SpecDB == InitDB /\ [][NextDB]_vars

\* C1: update_observation returns count 1 when the MAC has no row or the
\* stored (switch, port) differs from the observed pair, and the stored count
\* + 1 when the pair is the stored one, whatever the VLAN; the row then holds
\* the returned count; is_stable is true exactly when the count >= T.
C1_StabilityCount ==
    call.op = "update_observation" =>
        /\ call.count =
              IF call.state = NoRow THEN 1
              ELSE IF call.state.switch_name = call.switch_name
                      /\ call.state.port_name = call.port_name
                   THEN call.state.stability_count + 1
                   ELSE 1
        /\ db[call.mac].stability_count = call.count
        /\ call.is_stable <=> (call.count >= call.threshold)

\* a third consecutive observation of one (switch, port), in another VLAN
\* than the second, has returned count 3 and is_stable with T = 3
C1_Witness ==
    /\ call.op = "update_observation"
    /\ call.state # NoRow
    /\ call.state.switch_name = call.switch_name
    /\ call.state.port_name = call.port_name
    /\ call.state.vlan # call.vlan
    /\ call.threshold = 3
    /\ call.count = 3
    /\ call.is_stable

\* C6: the first update_observation for a MAC after mark_not_found(mac)
\* returns count 1, whether or not the row existed before the mark and
\* whether or not the observed pair is the one the row held.
C6_NotFoundResets ==
    (call.op = "update_observation" /\ call.after_not_found) => call.count = 1

\* a row with count >= 2 was marked not found and is then observed on the
\* very (switch, port) it held: the count returned is 1
C6_Witness ==
    /\ call.op = "update_observation"
    /\ call.after_not_found
    /\ call.state # NoRow
    /\ call.state.switch_name = call.switch_name
    /\ call.state.port_name = call.port_name
    /\ call.count = 1

----
(* SpecClassify: calls of the port classifier *)

\* port names given to classify: plain ones, one of the uplink list, and
\* ones the uplink regex matches (^po\d+, lag in any case)
ClassifyNames ==
    {Eth1, Eth2, Po1, <<"X", "e", "1">>, <<"L", "A", "G", "1">>,
     <<"G", "i", "0", "/", "1">>}

\* descriptions given to classify: None, and texts the uplink regex matches
\* or not
ClassifyDescriptions ==
    {NoDescription, UplinkText, <<"T", "R", "U", "N", "K">>,
     <<"t", "o", "-", "s", "p", "i", "n", "e">>, <<"s", "r", "v", "1">>}

InitClassify ==
    /\ db = EmptyDB
    /\ run_history = EmptyHistory
    /\ cables = {}
    /\ dry_run = FALSE
    /\ pc = "idle"
    /\ run = 0
    /\ oob_interfaces = <<>>
    /\ all_fdb_entries = <<>>
    /\ results = <<>>
    /\ idx = 0
    /\ summary = EmptySummary
    /\ streak = EmptyStreak
    /\ prev = NoPrev
    /\ call = NoCall

\* a caller invokes classify and is_access_port with the same arguments
CallClassify ==
    \E port_name \in ClassifyNames, port_description \in ClassifyDescriptions,
       is_lag_member \in BOOLEAN, lldp_neighbor_is_switch \in BOOLEAN :
        /\ call' = [op |-> "classify", unobserved |-> {},
                    port_name |-> port_name,
                    port_description |-> port_description,
                    is_lag_member |-> is_lag_member,
                    lldp_neighbor_is_switch |-> lldp_neighbor_is_switch,
                    classification |-> Classify(port_name, port_description,
                                        is_lag_member, lldp_neighbor_is_switch),
                    is_access_port |-> IsAccessPort(port_name, port_description,
                                        is_lag_member, lldp_neighbor_is_switch)]
        /\ UNCHANGED <<db, serviceVars>>

NextClassify == CallClassify

SpecClassify == InitClassify /\ [][NextClassify]_vars

----
(* SpecMac: calls of the MAC conversions (mac_utils.py) *)

\* octets of a canonical MAC: two lower-case hexadecimal digits, with the
\* least and the greatest value and values below and above 16
OctetTexts ==
    {<<"0","0">>, <<"0","a">>, <<"1","0">>, <<"7","f">>, <<"a","a">>, <<"f","f">>}

\* canonical MACs: aa:bb:cc:dd:ee:ff
CanonicalMacs ==
    {Join(<<o1, o2, o3, o4, <<"0","0">>, o6>>, ":") :
        o1 \in OctetTexts, o2 \in OctetTexts, o3 \in {<<"0","0">>, <<"f","f">>},
        o4 \in {<<"0","1">>, <<"e","e">>}, o6 \in {<<"0","0">>, <<"f","f">>}}

InitMac ==
    /\ db = EmptyDB
    /\ run_history = EmptyHistory
    /\ cables = {}
    /\ dry_run = FALSE
    /\ pc = "idle"
    /\ run = 0
    /\ oob_interfaces = <<>>
    /\ all_fdb_entries = <<>>
    /\ results = <<>>
    /\ idx = 0
    /\ summary = EmptySummary
    /\ streak = EmptyStreak
    /\ prev = NoPrev
    /\ call = NoCall

\* a caller converts a canonical MAC to an OID suffix and back
CallOidRoundTrip ==
    \E mac \in CanonicalMacs :
        /\ call' = [op |-> "oid_round_trip", unobserved |-> {},
                    mac |-> mac,
                    oid_suffix |-> MacToOidSuffix(mac),
                    back |-> OidSuffixToMac(MacToOidSuffix(mac))]
        /\ UNCHANGED <<db, serviceVars>>

NextMac == CallOidRoundTrip

SpecMac == InitMac /\ [][NextMac]_vars

----
(* SpecOid: calls of oid_suffix_to_mac (mac_utils.py) *)

\* components of an OID suffix as a switch or a caller may give them: octet
\* values, values above 255, a letter, nothing
SuffixParts ==
    {<<"0">>, <<"1","0">>, <<"2","5","5">>, <<"2","5","6">>, <<"9","9","9">>,
     <<"x">>, <<>>}

\* the arguments oid_suffix_to_mac is called with: six components, or five,
\* or seven
OidSuffixInputs ==
    {Join(<<p1, p2, <<"1","7","0">>, <<"7">>, p5, p6>>, ".") :
        p1 \in SuffixParts, p2 \in SuffixParts,
        p5 \in {<<"0">>, <<"2","5","6">>}, p6 \in {<<"2","5","5">>, <<"x">>}}
    \cup {Join(<<p1, p2, <<"1","7","0">>, <<"7">>, <<"0">>>>, ".") :
        p1 \in SuffixParts, p2 \in {<<"0">>}}
    \cup {Join(<<p1, p2, <<"1","7","0">>, <<"7">>, <<"0">>, <<"1">>, <<"2">>>>, ".") :
        p1 \in SuffixParts, p2 \in {<<"0">>}}

InitOid ==
    /\ db = EmptyDB
    /\ run_history = EmptyHistory
    /\ cables = {}
    /\ dry_run = FALSE
    /\ pc = "idle"
    /\ run = 0
    /\ oob_interfaces = <<>>
    /\ all_fdb_entries = <<>>
    /\ results = <<>>
    /\ idx = 0
    /\ summary = EmptySummary
    /\ streak = EmptyStreak
    /\ prev = NoPrev
    /\ call = NoCall

\* a caller converts an OID suffix; the function keeps nothing between
\* calls, so one call per behaviour
CallOidSuffixToMac ==
    /\ pc = "idle"
    /\ \E oid_suffix \in OidSuffixInputs :
        call' = [op |-> "oid_suffix_to_mac", unobserved |-> {},
                 oid_suffix |-> oid_suffix,
                 result |-> OidSuffixToMac(oid_suffix)]
    /\ pc' = "converted"
    /\ UNCHANGED <<db, run_history, cables, dry_run, run, oob_interfaces,
                   all_fdb_entries, results, idx, summary, streak, prev>>

NextOid == CallOidSuffixToMac

SpecOid == InitOid /\ [][NextOid]_vars

----
(* SpecNorm: calls of normalize_mac (mac_utils.py) *)

\* twelve hexadecimal digits in both cases, as a caller may hold them
MacDigits ==
    {<<"A","a","0","B","c","C","1","9","E","e","f","F">>,
     <<"0","0","1","a","2","b","3","c","4","d","5","e">>}

\* AA-BB-CC-DD-EE-FF
DashFormat(h) ==
    <<h[1], h[2], "-", h[3], h[4], "-", h[5], h[6], "-",
      h[7], h[8], "-", h[9], h[10], "-", h[11], h[12]>>

\* AABB.CCDD.EEFF
CiscoFormat(h) ==
    <<h[1], h[2], h[3], h[4], ".", h[5], h[6], h[7], h[8], ".",
      h[9], h[10], h[11], h[12]>>

\* the supported input formats of the twelve digits h
SupportedFormats(h) == {JoinOctets(h), DashFormat(h), CiscoFormat(h), h}

\* texts that are no MAC address: too short, too long, a letter that is no
\* hexadecimal digit, whitespace between the digits or behind a separator,
\* separators only, nothing
MalformedMacs ==
    {<<"A","A",":","B","B",":","C","C">>,
     <<"a","a","b","b","c","c","d","d","e","e","f","f","0">>,
     <<"G","G",":","H","H",":","I","I",":","J","J",":","K","K",":","L","L">>,
     <<"a","a",":","b","b",":","c","c",":","d","d",":","e","e",":","f","g">>,
     <<"a","a"," ","b","b"," ","c","c"," ","d","d"," ","e","e"," ","f","f">>,
     <<":"," ","a","a","b","b","c","c","d","d","e","e","f","f">>,
     <<"a","a","b","b","c","c","d","d","e","e","f",":","\n">>,
     <<":","-",".">>,
     <<>>}

\* whitespace around the text
Paddings == {<<>>, <<" ">>, <<"\t", " ">>, <<"\n">>}

\* the arguments normalize_mac is called with
NormalizeInputs ==
    {lead \o body \o trail :
        lead \in Paddings, trail \in Paddings,
        body \in MalformedMacs \cup UNION {SupportedFormats(h) : h \in MacDigits}}

InitNorm ==
    /\ db = EmptyDB
    /\ run_history = EmptyHistory
    /\ cables = {}
    /\ dry_run = FALSE
    /\ pc = "idle"
    /\ run = 0
    /\ oob_interfaces = <<>>
    /\ all_fdb_entries = <<>>
    /\ results = <<>>
    /\ idx = 0
    /\ summary = EmptySummary
    /\ streak = EmptyStreak
    /\ prev = NoPrev
    /\ call = NoCall

\* a caller normalizes a text, and normalizes what it got once more; the
\* function keeps nothing between calls, so one call per behaviour
CallNormalizeMac ==
    /\ pc = "idle"
    /\ \E mac \in NormalizeInputs :
        LET result == NormalizeMac(mac)
        IN  call' = [op |-> "normalize_mac", unobserved |-> {},
                     mac |-> mac,
                     result |-> result,
                     again |-> IF result = ValueError THEN ValueError
                               ELSE NormalizeMac(result)]
    /\ pc' = "normalized"
    /\ UNCHANGED <<db, run_history, cables, dry_run, run, oob_interfaces,
                   all_fdb_entries, results, idx, summary, streak, prev>>

NextNorm == CallNormalizeMac

SpecNorm == InitNorm /\ [][NextNorm]_vars

----
(* FDB collector (fdb_collector.py) and SpecCollect: calls of collect_fdb *)

\* how a walk (the nextCmd generator) can end: at the end of the table, with
\* an error indication or error status yielded by the generator (a timeout
\* is an error indication), or with an exception
WalkErrors == {"none", "indication", "raise"}

\* the rows a switch can deliver in a walk of one of its FDB tables, already
\* split into MAC, ifIndex and VLAN
WalkRow1 == [mac |-> Mac1, port_index |-> 1, vlan |-> 10]
WalkRow2 == [mac |-> Mac2, port_index |-> 2, vlan |-> 10]

\* a walk of an FDB table: the rows delivered before it ended, and how it
\* ended
FdbWalks ==
    [rows : {<<>>, <<WalkRow1>>, <<WalkRow1, WalkRow2>>}, error : WalkErrors]

\* the walk of ifName: the ifIndexes whose name was delivered before it
\* ended, and how it ended
NameWalks ==
    {[delivered |-> {1, 2}, error |-> "none"],
     [delivered |-> {1}, error |-> "indication"],
     [delivered |-> {}, error |-> "indication"],
     [delivered |-> {}, error |-> "raise"]}

\* the names of the switch's interfaces
IfName(if_index) == IF if_index = 1 THEN Eth1 ELSE Eth2

\* if_names.get(port_index, f"port{port_index}")
PortNameOf(delivered, port_index) ==
    IF port_index \in delivered THEN IfName(port_index)
    ELSE <<"p", "o", "r", "t">> \o StrDec(port_index)

\* _collect_huawei_fdb and _collect_q_bridge_fdb: one entry per row
\* delivered; the loop breaks at an error and keeps what it has
VlanWalkEntries(switch_name, delivered, walk) ==
    [i \in 1..Len(walk.rows) |->
        FDBEntry(walk.rows[i].mac, switch_name,
                 PortNameOf(delivered, walk.rows[i].port_index),
                 walk.rows[i].vlan)]

\* _collect_bridge_fdb: mac_to_port keeps the last port of each MAC, in the
\* order the MACs were first seen; the entries have no VLAN
BridgeWalkEntries(switch_name, delivered, walk) ==
    LET firsts == SelectSeq([i \in 1..Len(walk.rows) |-> i],
                    LAMBDA i : \A j \in 1..(i - 1) :
                                    walk.rows[j].mac # walk.rows[i].mac)
        last(mac) == CHOOSE i \in 1..Len(walk.rows) :
                        /\ walk.rows[i].mac = mac
                        /\ \A j \in (i + 1)..Len(walk.rows) :
                                walk.rows[j].mac # mac
    IN  [k \in 1..Len(firsts) |->
            FDBEntry(walk.rows[firsts[k]].mac, switch_name,
                     PortNameOf(delivered,
                        walk.rows[last(walk.rows[firsts[k]].mac)].port_index),
                     NoVlan)]

\* collect_fdb mutated: the Q-Bridge MIB is tried before the Huawei MIB
CollectFdb_qfirst(pysnmp_available, switch_name, switch_ip, names, hw, qb, br) ==
    IF ~ pysnmp_available THEN <<>>
    ELSE IF switch_ip = "" THEN <<>>
    ELSE IF names.error = "raise" THEN <<>>
    ELSE IF qb.error = "raise" THEN <<>>
    ELSE IF qb.rows # <<>> THEN VlanWalkEntries(switch_name, names.delivered, qb)
    ELSE IF hw.error = "raise" THEN <<>>
    ELSE IF hw.rows # <<>> THEN VlanWalkEntries(switch_name, names.delivered, hw)
    ELSE IF br.error = "raise" THEN <<>>
    ELSE BridgeWalkEntries(switch_name, names.delivered, br)

\* FDBCollector.collect_fdb: the list it returns.  An exception of a walk
\* is caught by `except Exception` and gives []; a walk is only started
\* when those before it gave no entry.
CollectFdb(pysnmp_available, switch_name, switch_ip, names, hw, qb, br) ==
    IF ~ pysnmp_available THEN <<>>
    ELSE IF switch_ip = "" THEN <<>>
    ELSE IF names.error = "raise" THEN <<>>
    ELSE IF hw.error = "raise" THEN <<>>
    ELSE IF hw.rows # <<>> THEN VlanWalkEntries(switch_name, names.delivered, hw)
    ELSE IF qb.error = "raise" THEN <<>>
    ELSE IF qb.rows # <<>> THEN VlanWalkEntries(switch_name, names.delivered, qb)
    ELSE IF br.error = "raise" THEN <<>>
    ELSE BridgeWalkEntries(switch_name, names.delivered, br)

\* the walks collect_fdb starts, in order
WalksStarted(pysnmp_available, switch_ip, names, hw, qb, br) ==
    IF ~ pysnmp_available \/ switch_ip = "" THEN <<>>
    ELSE IF names.error = "raise" THEN <<names>>
    ELSE IF hw.error = "raise" \/ hw.rows # <<>> THEN <<names, hw>>
    ELSE IF qb.error = "raise" \/ qb.rows # <<>> THEN <<names, hw, qb>>
    ELSE <<names, hw, qb, br>>

InitCollect ==
    /\ db = EmptyDB
    /\ run_history = EmptyHistory
    /\ cables = {}
    /\ dry_run = FALSE
    /\ pc = "idle"
    /\ run = 0
    /\ oob_interfaces = <<>>
    /\ all_fdb_entries = <<>>
    /\ results = <<>>
    /\ idx = 0
    /\ summary = EmptySummary
    /\ streak = EmptyStreak
    /\ prev = NoPrev
    /\ call = NoCall

\* run_once calls collect_fdb for a switch; the call returns (it has no
\* path that lets an Exception out)
CallCollectFdb ==
    /\ pc = "idle"
    /\ \E pysnmp_available \in BOOLEAN, switch_ip \in {"", "10.0.0.1"},
          names \in NameWalks, hw \in FdbWalks, qb \in FdbWalks, br \in FdbWalks :
        LET started == WalksStarted(pysnmp_available, switch_ip, names, hw, qb, br)
        IN  call' = [op |-> "collect_fdb", unobserved |-> {},
                     pysnmp_available |-> pysnmp_available,
                     switch_ip |-> switch_ip,
                     tables |-> [names |-> names, hw |-> hw, qb |-> qb, br |-> br],
                     walks |-> started,
                     raised |-> FALSE,
                     entries |-> CollectFdb(pysnmp_available, "sw1", switch_ip,
                                            names, hw, qb, br)]
    /\ pc' = "collected"
    /\ UNCHANGED <<db, run_history, cables, dry_run, run, oob_interfaces,
                   all_fdb_entries, results, idx, summary, streak, prev>>

NextCollect == CallCollectFdb

SpecCollect == InitCollect /\ [][NextCollect]_vars

----
(* SpecMain: the process from main() to its exit (__main__.py), with the  *)
(* inventory's GET requests failing or not                                 *)

\* the process has not exited
NoExitCode == -1

\* main: the exit code after run_once returned summary (one-shot mode),
\* mutated: errors are not looked at
ExitCodeOf_zero(s) == 0

\* main: the exit code after run_once returned summary (one-shot mode)
ExitCodeOf(s) == IF s.errors > 0 THEN 2 ELSE 0

\* the process at the start of main(): config_ok says NETBOX_URL and
\* NETBOX_TOKEN are set, daemon says --daemon or POLL_INTERVAL > 0
MainStates ==
    [op : {"main"}, config_ok : BOOLEAN, daemon : BOOLEAN, phase : {"start"},
     exit_code : {NoExitCode}, raised : {0}]

InitMain ==
    /\ db = EmptyDB
    /\ run_history = EmptyHistory
    /\ cables \in InitialCables
    /\ dry_run \in BOOLEAN
    /\ pc = "idle"
    /\ run = 0
    /\ oob_interfaces = <<>>
    /\ all_fdb_entries = <<>>
    /\ results = <<>>
    /\ idx = 0
    /\ summary = EmptySummary
    /\ streak = EmptyStreak
    /\ prev = NoPrev
    /\ call \in MainStates

\* main: NETBOX_URL or NETBOX_TOKEN is missing, sys.exit(1)
MainConfigMissing ==
    /\ call.phase = "start"
    /\ ~ call.config_ok
    /\ call' = [call EXCEPT !.phase = "exited", !.exit_code = 1]
    /\ UNCHANGED <<db, serviceVars>>

\* main: the service is constructed and run_daemon or run_once is entered
MainServiceStarted ==
    /\ call.phase = "start"
    /\ call.config_ok
    /\ call' = [call EXCEPT !.phase = "running"]
    /\ UNCHANGED <<db, serviceVars>>

\* run_once is called: once in one-shot mode, again and again by run_daemon
MainStartRun ==
    /\ call.phase = "running"
    /\ IF call.daemon THEN TRUE ELSE run = 0
    /\ run < MaxMainRuns
    /\ StartRun

\* run_once: get_devices_with_oob or get_switches raises (raise_for_status
\* in _get_all, or the connection fails); run_once logs and re-raises
RunFailsAtStart ==
    /\ call.phase = "running"
    /\ IF call.daemon THEN TRUE ELSE run = 0
    /\ run < MaxMainRuns
    /\ pc = "idle"
    /\ run' = run + 1
    /\ \E listed \in {0, Len(GetDevicesWithOob(cables))} :
            summary' = [EmptySummary EXCEPT !.total_ipmi = listed]
    /\ pc' = "failed"
    /\ results' = <<>>
    /\ idx' = 0
    /\ oob_interfaces' = <<>>
    /\ all_fdb_entries' = <<>>
    /\ UNCHANGED <<db, run_history, cables, dry_run, streak, prev, call>>

\* _correlate_one: get_switch_interface_by_name raises, after
\* update_observation has been called; correlate and run_once let it through
RunFailsAtLookup ==
    /\ pc = "correlate"
    /\ \E first \in FirstEndpoints(MacToFdb(all_fdb_entries,
                        Normalized(oob_interfaces[idx].mac_address))) :
        LET out == CorrelateOneResult(idx, oob_interfaces[idx], all_fdb_entries,
                                      SwitchList, db, cables, first)
        IN  /\ out.observed
            /\ db' = out.db
            /\ streak' = [streak EXCEPT
                            ![idx] = NextStreak(@, out.result, out.observed)]
    /\ pc' = "failed"
    /\ UNCHANGED <<run_history, cables, dry_run, run, oob_interfaces,
                   all_fdb_entries, results, idx, summary, prev, call>>

\* run_daemon mutated: a run that raises ends the loop
DaemonCatch_exit ==
    /\ call.phase = "running"
    /\ call.daemon
    /\ pc = "failed"
    /\ call' = [call EXCEPT !.phase = "exited", !.exit_code = 1]
    /\ UNCHANGED <<db, serviceVars>>

\* run_daemon: `except Exception` logs the failure of the run; the loop
\* sleeps and goes on
DaemonCatch ==
    /\ call.phase = "running"
    /\ call.daemon
    /\ pc = "failed"
    /\ pc' = "idle"
    /\ call' = [call EXCEPT !.raised = @ + 1]
    /\ UNCHANGED <<db, run_history, cables, dry_run, run, oob_interfaces,
                   all_fdb_entries, results, idx, summary, streak, prev>>

\* main in one-shot mode: run_once returned (exit 2 with errors, else 0) or
\* raised (exit 1)
MainExit ==
    /\ call.phase = "running"
    /\ ~ call.daemon
    /\ run = 1
    /\ pc \in {"idle", "failed"}
    /\ call' = [call EXCEPT !.phase = "exited",
                            !.exit_code = IF pc = "failed" THEN 1
                                          ELSE ExitCodeOf(summary)]
    /\ UNCHANGED <<db, serviceVars>>

NextMain ==
    \/ MainConfigMissing
    \/ MainServiceStarted
    \/ MainStartRun
    \/ RunFailsAtStart
    \/ CorrelateOne
    \/ RunFailsAtLookup
    \/ ProcessResult
    \/ RecordRun
    \/ DaemonCatch
    \/ MainExit

SpecMain == InitMain /\ [][NextMain]_vars

----
(* SpecExit: the process of SpecMain with the state store as a resource   *)
(* and with interrupts (Ctrl-C) arriving while run_once or run_daemon runs *)

\* main mutated: service.close() at the end of the try block instead of in
\* a finally clause, reached only when nothing was raised
Finally_onsuccess(c) ==
    IF c.exit_code = 0 /\ ~ c.interrupted THEN [c EXCEPT !.store = "closed"]
    ELSE c

\* main: `finally: service.close()`, which closes the connection of StateDB
Finally(c) == [c EXCEPT !.store = "closed"]

\* the process at the start of main(), the state store not yet opened
ExitStates ==
    [op : {"main"}, config_ok : BOOLEAN, daemon : BOOLEAN, phase : {"start"},
     exit_code : {NoExitCode}, raised : {0}, store : {"unopened"},
     interrupted : {FALSE}]

InitExit ==
    /\ db = EmptyDB
    /\ run_history = EmptyHistory
    /\ cables \in InitialCables
    /\ dry_run \in BOOLEAN
    /\ pc = "idle"
    /\ run = 0
    /\ oob_interfaces = <<>>
    /\ all_fdb_entries = <<>>
    /\ results = <<>>
    /\ idx = 0
    /\ summary = EmptySummary
    /\ streak = EmptyStreak
    /\ prev = NoPrev
    /\ call \in ExitStates

\* main: IPMIAutoCablingService(config) opens the state store in its
\* constructor, then the try block is entered
ServiceConstructed ==
    /\ call.phase = "start"
    /\ call.config_ok
    /\ call' = [call EXCEPT !.phase = "running", !.store = "open"]
    /\ UNCHANGED <<db, serviceVars>>

\* main: KeyboardInterrupt is raised somewhere in run_once or run_daemon
\* (an `except Exception` does not catch it); main prints "Interrupted",
\* runs the finally clause and returns
KeyboardInterruptRaised ==
    /\ call.phase = "running"
    /\ call' = Finally([call EXCEPT !.phase = "exited", !.exit_code = 0,
                                    !.interrupted = TRUE])
    /\ pc' = "interrupted"
    /\ UNCHANGED <<db, run_history, cables, dry_run, run, oob_interfaces,
                   all_fdb_entries, results, idx, summary, streak, prev>>

\* main in one-shot mode: run_once returned (sys.exit(2) with errors, else
\* the end of main) or raised (sys.exit(1) in the handler); the finally
\* clause runs in each case
OneShotExit ==
    /\ call.phase = "running"
    /\ ~ call.daemon
    /\ run = 1
    /\ pc \in {"idle", "failed"}
    /\ call' = Finally([call EXCEPT !.phase = "exited",
                                    !.exit_code = IF pc = "failed" THEN 1
                                                  ELSE ExitCodeOf(summary)])
    /\ UNCHANGED <<db, serviceVars>>

NextExit ==
    \/ MainConfigMissing
    \/ ServiceConstructed
    \/ MainStartRun
    \/ RunFailsAtStart
    \/ CorrelateOne
    \/ RunFailsAtLookup
    \/ ProcessResult
    \/ RecordRun
    \/ DaemonCatch
    \/ KeyboardInterruptRaised
    \/ OneShotExit

SpecExit == InitExit /\ [][NextExit]_vars

----
(* Claims about the runs of the service (Spec) *)

\* the decision for the k-th interface has been through _process_result
Processed(k) ==
    /\ k \in 1..Len(results)
    /\ pc = "record" \/ (pc = "process" /\ k < idx)

\* C2: a cable is created for an OOB interface only if its MAC was resolved
\* to that very (switch, port) in each of the STABILITY_RUNS latest runs, the
\* current one included: a run that resolves it elsewhere or not at all
\* restarts the qualification.
C2_CableOnlyAfterConsecutiveRuns ==
    \A k \in 1..Len(results) :
        results[k].action = "created" =>
            /\ streak[k].endpoint = <<results[k].switch_name, results[k].port_name>>
            /\ streak[k].n >= StabilityRuns

\* the decision this step of _process_result handles, and what it does
CreateCalledInStep == pc = "process" /\ results'[idx].action # "none"
CreatedRecordedInStep ==
    \/ summary'.created > summary.created
    \/ \E m \in Macs : db'[m] # NoRow /\ db'[m].last_status = CREATED
                       /\ (db[m] = NoRow \/ db[m].last_status # CREATED)

\* C3: create_cable is called, and CREATED recorded, only for a decision with
\* is_stable = true whose port lookup returned has_cable = false and whose
\* OOB interface had has_cable = false; and when such a decision is made the
\* inventory holds no cable on either end.
C3_CreateOnlyStableUncabled ==
    [][ /\ (CreateCalledInStep \/ CreatedRecordedInStep) =>
            /\ pc = "process"
            /\ results[idx].status = PENDING
            /\ results[idx].is_stable
            /\ ~ results[idx].ipmi_has_cable
            /\ ~ results[idx].switch_iface_has_cable
        /\ (pc = "correlate" /\ results'[idx].status = PENDING
                             /\ results'[idx].is_stable) =>
            ~ \E c \in cables : \/ c.a = results'[idx].interface_id
                                \/ c.b = results'[idx].port_id
      ]_vars

\* a stable decision has had its cable created
C3_Witness ==
    \E k \in 1..Len(results) :
        /\ results[k].action = "created"
        /\ results[k].is_stable
        /\ db[results[k].mac].last_status = CREATED

\* the service has created a cable for the k-th OOB interface
HasCreatedCable(k) ==
    \E c \in cables : c.auto /\ c.a = OobDevices[k].interface_id

\* C4: at most one cable is created for an OOB interface; once it is
\* created, every later decision for the interface is EXISTS or MISMATCH and
\* create_cable is not called for it again.
C4_AtMostOneCable ==
    /\ [](\A k \in 1..Len(OobDevices) :
            Cardinality({c \in cables :
                            c.auto /\ c.a = OobDevices[k].interface_id}) <= 1)
    /\ [][\A k \in 1..Len(OobDevices) :
            HasCreatedCable(k) =>
                /\ (pc = "correlate" /\ idx = k) =>
                        results'[k].status \in {EXISTS, MISMATCH}
                /\ (pc = "process" /\ idx = k) => results'[k].action = "none"
         ]_vars

\* a run after the one that created the cable has decided EXISTS for the
\* interface
C4_Witness ==
    \E k \in 1..Len(results) :
        /\ HasCreatedCable(k)
        /\ results[k].status = EXISTS
        /\ Processed(k)

\* the k-th interface is on the happy path in the current run: in every run
\* so far its MAC was resolved to one and the same (switch, port), which the
\* inventory knows and holds uncabled, and no call of the inventory failed
OnHappyPath(k) ==
    /\ Processed(k)
    /\ run <= StabilityRuns
    /\ streak[k].n = run
    /\ \E p \in SwitchPorts : /\ p.device_id = results[k].switch_id
                              /\ p.name = results[k].port_name
    /\ ~ results[k].switch_iface_has_cable
    /\ results[k].action # "create_failed"

\* runs 1..T-1 end in PENDING with counts 1..T-1, run T creates the cable and
\* records CREATED
HappyOutcome(k) ==
    IF run < StabilityRuns
    THEN /\ results[k].status = PENDING
         /\ results[k].action = "none"
         /\ results[k].stability_count = run
         /\ ~ HasCreatedCable(k)
    ELSE /\ results[k].action = "created"
         /\ [a |-> results[k].interface_id, b |-> results[k].port_id,
             auto |-> TRUE] \in cables
         /\ db[results[k].mac].last_status = CREATED
         /\ db[results[k].mac].cable_created

\* C5 as stated: on the happy path runs 1..T-1 end in PENDING with counts
\* 1..T-1 and run T creates the cable and records CREATED, in any mode
C5_HappyPath_AnyMode ==
    \A k \in 1..Len(results) : OnHappyPath(k) => HappyOutcome(k)

\* C5 amended: the same, with dry-run off
C5_HappyPath ==
    \A k \in 1..Len(results) : (OnHappyPath(k) /\ ~ dry_run) => HappyOutcome(k)

\* run T = STABILITY_RUNS of the happy path has created the cable
C5_Witness ==
    \E k \in 1..Len(results) :
        /\ OnHappyPath(k)
        /\ ~ dry_run
        /\ run = StabilityRuns
        /\ results[k].action = "created"
        /\ results[k].stability_count = StabilityRuns

\* (A, B) is a configured MLAG pair, in either order
ConfiguredPeers(a, b) ==
    \E i \in 1..Len(MlagGroups) :
        \/ MlagGroups[i] = <<a, b>>
        \/ MlagGroups[i] = <<b, a>>

\* the sightings are exactly on A:X and B:X of a configured pair (A, B)
OnBothMlagPeers(endpoints) ==
    \E a \in Switches, b \in Switches, x \in {Eth1, Eth2, Po1} :
        /\ ConfiguredPeers(a, b)
        /\ endpoints = {<<a, x>>, <<b, x>>}

\* the sightings of the k-th interface's MAC in the current call of correlate
Sightings(k) ==
    MacToFdb(all_fdb_entries, Normalized(oob_interfaces[k].mac_address))

\* C8: a MAC seen on the same port name of both switches of a configured
\* pair sw1:sw2 gets a decision that targets sw1, the first of the pair.
C8_MlagTargetsFirstSwitch ==
    \A k \in 1..Len(results) :
        (/\ ~ oob_interfaces[k].has_cable
         /\ OnBothMlagPeers(UniqueEndpoints(Sightings(k)))) =>
            \E i \in 1..Len(MlagGroups) :
                /\ <<MlagGroups[i][1], results[k].port_name>>
                        \in UniqueEndpoints(Sightings(k))
                /\ results[k].switch_name = MlagGroups[i][1]

\* what port_to_mac holds for the cable peer of an interface: the MAC of
\* the last FDB entry of that (switch, port), if there is one
PeerMacs(ipmi) ==
    {Normalized(all_fdb_entries[i].mac) : i \in
        {i \in 1..Len(all_fdb_entries) :
            /\ all_fdb_entries[i].switch_name = ipmi.cable_peer_switch
            /\ all_fdb_entries[i].port_name = ipmi.cable_peer_port
            /\ \A j \in (i + 1)..Len(all_fdb_entries) :
                  \/ all_fdb_entries[j].switch_name # ipmi.cable_peer_switch
                  \/ all_fdb_entries[j].port_name # ipmi.cable_peer_port}}

\* C10: for an interface with has_cable = true the decision is MISMATCH,
\* with expected_mac, actual_mac and the peer as location, exactly when the
\* peer is known, port_to_mac has an entry for it and the entry differs from
\* the interface's normalized MAC; in every other case it is EXISTS.
C10_MismatchOrExists ==
    \A k \in 1..Len(results) :
        LET ipmi == oob_interfaces[k]
            r == results[k]
            differs == /\ ipmi.cable_peer_switch # NoSwitch
                       /\ ipmi.cable_peer_port # NoPort
                       /\ \E m \in PeerMacs(ipmi) : m # Normalized(ipmi.mac_address)
        IN  ipmi.has_cable =>
                IF differs
                THEN /\ r.status = MISMATCH
                     /\ r.expected_mac = Normalized(ipmi.mac_address)
                     /\ {r.actual_mac} = PeerMacs(ipmi)
                     /\ r.switch_name = ipmi.cable_peer_switch
                     /\ r.port_name = ipmi.cable_peer_port
                ELSE r.status = EXISTS

\* a cabled interface whose peer port shows another MAC got MISMATCH
C10_Witness ==
    \E k \in 1..Len(results) :
        /\ oob_interfaces[k].has_cable
        /\ results[k].status = MISMATCH
        /\ results[k].actual_mac = Mac1
        /\ results[k].expected_mac = Mac2

\* C11: an uncabled OOB interface whose MAC has no FDB entry in the run gets
\* NOT_FOUND, and the state store then holds a row for the MAC, created if
\* absent, with stability_count = 0 and last_status = NOT_FOUND.
C11_NotFoundPersisted ==
    \A k \in 1..Len(results) :
        (~ oob_interfaces[k].has_cable /\ Sightings(k) = <<>>) =>
            /\ results[k].status = NOT_FOUND
            /\ db[results[k].mac] # NoRow
            /\ db[results[k].mac].stability_count = 0
            /\ db[results[k].mac].last_status = NOT_FOUND

\* a MAC observed on a port in an earlier run is in no FDB in this one
C11_Witness ==
    \E k \in 1..Len(results) :
        /\ ~ oob_interfaces[k].has_cable
        /\ Sightings(k) = <<>>
        /\ results[k].status = NOT_FOUND
        /\ db[results[k].mac].switch_name = "sw1"
        /\ db[results[k].mac].stability_count = 0

\* the inventory's record of a switch interface
PortById(port_id) == CHOOSE q \in SwitchPorts : q.id = port_id

\* C12: every cable the service creates goes to a switch port that rules 1-6
\* of the classifier make ACCESS: its name is not in the uplink list and
\* does not match the uplink regex, and its inventory description, if not
\* empty, does not match the uplink regex.
C12_CableOnlyToAccessPort ==
    \A c \in cables :
        c.auto =>
            Classify(PortById(c.b).name, PortById(c.b).description,
                     FALSE, FALSE).port_type = "access"

\* C19: in dry-run mode no cable creation request reaches the inventory,
\* no cable is created, and the state store never holds last_status =
\* CREATED or cable_created = true for any MAC.
C19_DryRunCreatesNothing ==
    dry_run =>
        /\ \A c \in cables : ~ c.auto
        /\ \A k \in 1..Len(results) :
                results[k].action \notin {"created", "create_failed"}
        /\ \A m \in Macs :
                db[m] # NoRow =>
                    (db[m].last_status # CREATED /\ ~ db[m].cable_created)

\* in dry-run mode a stable decision went through _process_result
C19_Witness ==
    /\ dry_run
    /\ \E k \in 1..Len(results) :
            /\ results[k].action = "dry_run"
            /\ results[k].is_stable
            /\ db[results[k].mac].last_status = ERROR

\* the decision correlate has just appended to results, if this step is one
\* of _correlate_one
JustDecided(status) ==
    /\ pc = "correlate"
    /\ Len(results') = Len(results) + 1
    /\ results'[Len(results')].status = status

\* C22: update_observation is called only after the port lookup succeeded and
\* the switch port was found uncabled: a decision of ERROR for an absent port
\* or of SKIP_NON_ACCESS for a switch port that already has a cable leaves
\* the row of the MAC (stability_count, switch, port) as it was.
C22_ObservationAfterPortLookup ==
    [][ LET r == results'[Len(results')]
        IN  ( \/ JustDecided(ERROR) /\ r.reason = "interface not found"
              \/ JustDecided(SKIP_NON_ACCESS) /\ r.switch_iface_has_cable )
            => db'[r.mac] = db[r.mac] ]_vars

\* C24: whenever correlate decides SKIP_NON_ACCESS because the resolved port
\* is classified not allowed, the state store afterwards holds last_status =
\* SKIP_NON_ACCESS for the MAC, also when the MAC had no row before.
C24_SkipPersisted ==
    [][ LET r == results'[Len(results')]
        IN  (JustDecided(SKIP_NON_ACCESS) /\ ~ r.port_classification.is_allowed)
            => /\ ~ db'[r.mac].absent
               /\ db'[r.mac].last_status = SKIP_NON_ACCESS ]_vars

\* C27: for an OOB interface that has a cable the decision is EXISTS or
\* MISMATCH, and neither _correlate_one nor _process_result writes to the
\* state store or creates, changes or deletes a cable for it.
C27_CabledInterfaceUntouched ==
    [][ /\ (pc = "correlate" /\ Len(results') = Len(results) + 1
               /\ oob_interfaces[idx].has_cable)
           => /\ results'[Len(results')].status \in {EXISTS, MISMATCH}
              /\ db' = db
              /\ cables' = cables
        /\ (pc = "process" /\ results[idx].status \in {EXISTS, MISMATCH})
           => /\ results[idx].ipmi_has_cable
              /\ db' = db
              /\ cables' = cables ]_vars

\* a run has decided EXISTS for an interface whose cable an earlier run
\* created, and MISMATCH for the other interface, and has processed both
C27_Witness ==
    /\ pc = "record"
    /\ results[1].status = EXISTS
    /\ db[results[1].mac].cable_created
    /\ results[2].status = MISMATCH

FinalStatus(r) ==
    IF r.action = "created" THEN CREATED
    ELSE IF r.action = "create_failed" THEN ERROR
    ELSE r.status

\* C35: no switch port receives more than one cable created by the
\* service, and when two uncabled OOB interfaces are both stably observed on
\* the same uncabled access port, create_cable is called for at most one of
\* them.
C35_OneCablePerPort ==
    /\ \A c1 \in cables, c2 \in cables :
            (c1.auto /\ c2.auto /\ c1.b = c2.b) => c1 = c2
    /\ \A i \in 1..Len(results), j \in 1..Len(results) :
            (/\ i # j
             /\ results[i].status \in {PENDING, CREATED}
             /\ results[j].status \in {PENDING, CREATED}
             /\ results[i].action # "none"
             /\ results[j].action # "none")
                => results[i].port_id # results[j].port_id

\* the buckets of a RunSummary that count decisions
Buckets ==
    {"created", "exists", "skipped", "ambiguous", "not_found", "pending",
     "errors", "mismatch"}

\* created + exists + skipped + ambiguous + not_found + pending + errors +
\* mismatch
BucketSum(s) ==
    s.created + s.exists + s.skipped + s.ambiguous + s.not_found + s.pending
        + s.errors + s.mismatch

\* C36: in a run that reaches correlation, correlate returns exactly one
\* decision per input OOB interface, in input order, none with status
\* CREATED; each decision increments exactly one summary bucket by one; and
\* at the end of the run the eight buckets add up to total_ipmi.
C36_OneDecisionOneBucket ==
    /\ [](pc \in {"correlate", "process", "record"} =>
            /\ Len(results) = IF pc = "correlate" THEN idx - 1
                              ELSE Len(oob_interfaces)
            /\ \A i \in 1..Len(results) :
                /\ results[i].ipmi_interface = i
                /\ results[i].interface_id = oob_interfaces[i].interface_id
                /\ results[i].status \in
                        {EXISTS, SKIP_NON_ACCESS, AMBIGUOUS, NOT_FOUND, ERROR,
                         PENDING, MISMATCH})
    /\ [][pc = "process" =>
            /\ summary'.total_ipmi = summary.total_ipmi
            /\ \E b \in Buckets :
                /\ summary'[b] = summary[b] + 1
                /\ \A o \in Buckets \ {b} : summary'[o] = summary[o]]_vars
    /\ []((pc = "correlate" /\ idx = 1) => BucketSum(summary) = 0)
    /\ [](pc = "record" => BucketSum(summary) = summary.total_ipmi)

\* the end of a run of two decisions, one counted as created and one as an
\* error
C36_Witness ==
    /\ pc = "record"
    /\ summary.total_ipmi = 2
    /\ summary.created = 1
    /\ summary.errors = 1

\* C37: a cabled OOB interface whose own MAC appears in the run's FDB
\* entries on its cabled peer (switch, port) is never reported as MISMATCH,
\* whatever other MACs are seen on that port and in whatever order.
C37_OwnMacSeenNoMismatch ==
    \A i \in 1..Len(results) :
        LET ipmi == oob_interfaces[i]
        IN  (/\ ipmi.has_cable
             /\ \E j \in 1..Len(all_fdb_entries) :
                    /\ Normalized(all_fdb_entries[j].mac)
                            = Normalized(ipmi.mac_address)
                    /\ all_fdb_entries[j].switch_name = ipmi.cable_peer_switch
                    /\ all_fdb_entries[j].port_name = ipmi.cable_peer_port)
                => results[i].status # MISMATCH

\* C39: in dry-run mode a stable eligible decision, whose cable creation is
\* only logged, is not counted in the errors bucket and does not set the
\* MAC's last_status to ERROR, so a one-shot dry run without ERROR decisions
\* returns a summary with which main exits with code 0.
C39_DryRunIsNoError ==
    (dry_run /\ pc = "record") =>
        /\ \A i \in 1..Len(results) :
                results[i].action = "dry_run"
                    => db[results[i].mac].last_status # ERROR
        /\ summary.errors
                = Cardinality({i \in 1..Len(results) : results[i].status = ERROR})
        /\ (\A i \in 1..Len(results) : results[i].status # ERROR)
                => ExitCodeOf(summary) = 0

\* C31: after a run, the persisted last_status of every MAC for which the run
\* made a decision on an uncabled interface is the final status of that
\* decision (PENDING, CREATED, SKIP_NON_ACCESS, NOT_FOUND, AMBIGUOUS or ERROR).
C31_LastStatusIsDecision ==
    pc = "record" =>
        \A i \in 1..Len(results) :
            ~ results[i].ipmi_has_cable =>
                /\ ~ db[results[i].mac].absent
                /\ db[results[i].mac].last_status = FinalStatus(results[i])

----
(* Claims about runs with a MAC on two OOB interfaces (SpecDup) *)

\* C23: within one run there is at most one update_observation per MAC, so
\* the stability_count of a MAC grows by at most 1 per run, also when two
\* OOB interfaces returned by the inventory carry the same MAC.
C23_OneObservationPerRun ==
    (prev # NoPrev /\ pc \in {"correlate", "process", "record"}) =>
        \A mac \in Macs :
            ~ db[mac].absent =>
                db[mac].stability_count <=
                    (IF prev.db[mac].absent THEN 0
                     ELSE prev.db[mac].stability_count) + 1

----
(* Claims about runs with a MAC on both switches of an MLAG pair (SpecPair) *)

\* C38: an uncabled OOB interface whose MAC is seen in every run on the same
\* access port name of both switches of a configured MLAG pair, and nowhere
\* else, resolves to the same switch in every run: its stability count is
\* the number of runs so far, and the decision of run STABILITY_RUNS is the
\* stable one for which the cable is created.
C38_MlagPairAccrues ==
    (/\ pc \in {"process", "record"}
     /\ ~ oob_interfaces[1].has_cable) =>
        /\ results[1].status = PENDING
        /\ streak[1].n = run
        /\ results[1].stability_count = run
        /\ run >= StabilityRuns => ShouldCreate(results[1])

----
(* Claims about runs on an inventory that may list nothing (SpecEmpty) *)

\* C25: every run_once call that returns a summary has appended exactly one
\* row to run_history carrying the counters of that summary, including runs
\* that found no OOB interfaces or no switches.
C25_EveryRunRecorded ==
    (pc = "idle" /\ run > 0) =>
        /\ run_history.rows = run
        /\ run_history.last = RecordRunRow(summary)

----
(* Claims about runs with a malformed MAC (SpecBadMac) *)

\* the run has been given a malformed MAC, on an OOB interface or in an FDB
\* entry
MalformedGiven ==
    \/ \E k \in 1..Len(oob_interfaces) : Rejected(oob_interfaces[k].mac_address)
    \/ \E i \in 1..Len(all_fdb_entries) : Rejected(all_fdb_entries[i].mac)

\* C26: a malformed MAC on one OOB interface or in one FDB entry is fatal
\* only to that item: run_once does not raise, and once correlate has
\* returned there is a decision for every other OOB interface.
C26_MalformedMacNotFatal ==
    MalformedGiven =>
        /\ pc # "failed"
        /\ pc \in {"process", "record"} =>
               \A k \in 1..Len(oob_interfaces) :
                   ~ Rejected(oob_interfaces[k].mac_address) =>
                       \E i \in 1..Len(results) : results[i].ipmi_interface = k

----
(* Claims about correlate on its own (SpecCorr) *)

\* C7: for configured MLAG peers (A, B), a MAC whose sightings are exactly on
\* A:X and B:X is resolved to the same endpoint by every call of correlate
\* with that entry set, whatever the order of the entries.
C7_MlagOrderIndependent ==
    (/\ pc = "process"
     /\ prev.valid
     /\ prev.entries = EntrySet(all_fdb_entries)
     /\ OnBothMlagPeers(UniqueEndpoints(Sightings(1)))) =>
        /\ results[1].switch_name = prev.switch_name
        /\ results[1].port_name = prev.port_name

\* C9: for an uncabled interface with at least one sighting the decision is
\* AMBIGUOUS exactly when the unique (switch, port) endpoints are two or more
\* and not two endpoints of one port name on configured MLAG peers; a single
\* unique endpoint, however often sighted, is accepted.
C9_AmbiguousExactly ==
    \A k \in 1..Len(results) :
        LET u == UniqueEndpoints(Sightings(k))
            r == results[k]
        IN  (~ oob_interfaces[k].has_cable /\ Sightings(k) # <<>>) =>
                /\ r.status = AMBIGUOUS <=>
                        (Cardinality(u) >= 2 /\ ~ OnBothMlagPeers(u))
                /\ Cardinality(u) = 1 =>
                        /\ r.status \notin {AMBIGUOUS, NOT_FOUND}
                        /\ <<r.switch_name, r.port_name>> \in u

\* three unique endpoints were AMBIGUOUS
C9_Witness ==
    \E k \in 1..Len(results) :
        /\ Cardinality(UniqueEndpoints(Sightings(k))) = 3
        /\ results[k].status = AMBIGUOUS

\* what executions of _correlate_one can give for the interface whose turn
\* it is, from the inputs and the state store as they are now: the decision
\* and the state store after it
CorrelateOutcomes ==
    {[result |-> out.result, db |-> out.db] :
        out \in {CorrelateOneResult(idx, oob_interfaces[idx], all_fdb_entries,
                                    SwitchList, db, cables, first) :
                    first \in FirstEndpoints(Sightings(idx))}}

\* C14: with identical inputs and identical state-store contents, two
\* executions of correlate give the identical decision for each interface
\* and leave the state store with identical contents.
C14_Deterministic ==
    pc = "correlate" => Cardinality(CorrelateOutcomes) = 1

----
(* Claims about the MLAG peer relation (SpecMlag) *)

\* C29: the peer relation built from the configured pairs is symmetric for
\* every configuration: _are_mlag_peers(a, b) = _are_mlag_peers(b, a) for
\* all switch names a and b, also when a name occurs in more than one pair.
C29_PeerRelationSymmetric ==
    call.op = "are_mlag_peers" => call.peers = call.peers_reversed

----
(* Claims about the port classifier (SpecClassify) *)

\* whether rule i (1..5) of the classifier matches the arguments of the call
RuleMatches(i) ==
    IF i = 1 THEN call.port_name \in UplinkPorts
    ELSE IF i = 2 THEN /\ call.port_description # <<>>
                       /\ UplinkPatternSearch(call.port_description)
    ELSE IF i = 3 THEN UplinkPatternSearch(call.port_name)
    ELSE IF i = 4 THEN call.is_lag_member
    ELSE IF i = 5 THEN call.lldp_neighbor_is_switch
    ELSE TRUE

\* the port type each rule gives
RulePortType == <<"uplink", "uplink", "uplink", "lag_member", "uplink", "access">>

\* C13: classify returns the outcome of the first rule that matches, in the
\* order uplink list, description, name, LAG member, LLDP neighbour, else
\* ACCESS; is_allowed is true exactly for ACCESS; is_access_port returns
\* classify's is_allowed.
C13_FirstMatchWins ==
    call.op = "classify" =>
        LET first == CHOOSE i \in 1..6 :
                        RuleMatches(i) /\ \A j \in 1..(i - 1) : ~ RuleMatches(j)
        IN  /\ call.classification.rule = first
            /\ call.classification.port_type = RulePortType[first]
            /\ call.classification.is_allowed <=>
                    (call.classification.port_type = "access")
            /\ call.is_access_port = call.classification.is_allowed

\* a LAG member whose name matches the uplink regex is UPLINK by the name
\* rule, not LAG_MEMBER
C13_Witness ==
    /\ call.op = "classify"
    /\ call.is_lag_member
    /\ call.lldp_neighbor_is_switch
    /\ call.port_name = Po1
    /\ call.port_description = <<"s", "r", "v", "1">>
    /\ call.classification.rule = 3
    /\ ~ call.is_access_port

----
(* Claims about the MAC conversions (SpecMac) *)

\* C20: for every canonical MAC m, oid_suffix_to_mac(mac_to_oid_suffix(m))
\* is m.
C20_OidRoundTrip ==
    call.op = "oid_round_trip" => call.back = call.mac

\* a MAC with octets 00 and ff went through the decimal form and back
C20_Witness ==
    /\ call.op = "oid_round_trip"
    /\ call.mac = <<"0","0",":","f","f",":","0","0",":","0","1",":","0","0",":","f","f">>
    /\ call.oid_suffix = <<"0",".","2","5","5",".","0",".","1",".","0",".","2","5","5">>
    /\ call.back = call.mac

----
(* Claims about normalize_mac (SpecNorm) *)

\* the characters of a text between its surrounding whitespace, without the
\* separators ':', '-' and '.'
ReducedMac(mac) ==
    LET NoSeparator(c) == c \notin MacSeparators
    IN  SelectSeq(Strip(mac), NoSeparator)

\* ^[0-9a-f]{2}(:[0-9a-f]{2}){5}$
IsCanonicalMac(m) ==
    /\ Len(m) = 17
    /\ \A i \in 1..17 : IF i % 3 = 0 THEN m[i] = ":" ELSE m[i] \in HexDigits

\* C21: normalize_mac gives the empty text for the empty text, raises
\* ValueError for every other text that does not reduce to exactly twelve
\* hexadecimal digits, and otherwise gives the six octets of those digits in
\* lower case joined by ':'; normalizing its result gives the result again.
C21_NormalizeMac ==
    call.op = "normalize_mac" =>
        LET digits == ReducedMac(call.mac)
            twelveHex == /\ Len(digits) = 12
                         /\ \A i \in 1..Len(digits) :
                                LowerChar(digits[i]) \in HexDigits
        IN  IF call.mac = <<>> THEN call.result = <<>> /\ call.again = <<>>
            ELSE IF ~ twelveHex THEN call.result = ValueError
            ELSE /\ IsCanonicalMac(call.result)
                 /\ \A i \in 1..12 :
                        call.result[i + (i - 1) \div 2] = LowerChar(digits[i])
                 /\ call.again = call.result

\* digits in both cases in the dotted format with whitespace around them
\* came out canonical
C21_Witness ==
    /\ call.op = "normalize_mac"
    /\ call.mac = <<"\t"," ","A","a","0","B",".","c","C","1","9",".",
                    "E","e","f","F","\n">>
    /\ call.result = <<"a","a",":","0","b",":","c","c",":","1","9",":",
                       "e","e",":","f","f">>
    /\ call.again = call.result

----
(* Claims about oid_suffix_to_mac (SpecOid) *)

\* exactly six components, each a decimal number in 0..255
IsOctetSuffix(oid_suffix) ==
    LET parts == Split(oid_suffix, ".")
    IN  /\ Len(parts) = 6
        /\ \A i \in 1..6 :
            /\ parts[i] # <<>>
            /\ \A j \in 1..Len(parts[i]) : parts[i][j] \in Digits
            /\ IntDec(parts[i]) <= 255

\* C33: oid_suffix_to_mac raises a validation error for every suffix that is
\* not exactly six decimal components each in 0..255, so every value it
\* returns is a canonical MAC.
C33_OidSuffixValidated ==
    call.op = "oid_suffix_to_mac" =>
        /\ ~ IsOctetSuffix(call.oid_suffix) => call.result = ValueError
        /\ call.result # ValueError => IsCanonicalMac(call.result)

----
(* Claims about the FDB collector (SpecCollect) *)

\* an SNMP error or timeout occurred in a walk the call started
SnmpErrorOccurred ==
    \E i \in 1..Len(call.walks) : call.walks[i].error # "none"

\* C15: when an SNMP error or timeout occurs while walking a switch,
\* collect_fdb returns an empty list, with no partially collected entry,
\* and raises nothing.
C15_ErrorGivesEmpty ==
    (call.op = "collect_fdb" /\ SnmpErrorOccurred) =>
        /\ call.entries = <<>>
        /\ ~ call.raised

\* the walks of the call in the order collect_fdb takes them: ifName, then
\* the Huawei, the Q-Bridge and the Bridge MIB
WalkOrder == <<call.tables.names, call.tables.hw, call.tables.qb, call.tables.br>>

\* C30: collect_fdb tries the Huawei MIB, then the Q-Bridge MIB, then the
\* Bridge MIB, in that order, and returns the entries of the first walk that
\* yields a non-empty result without running the later walks; a switch with
\* an empty management IP gives an empty result and no SNMP request.
C30_FirstNonEmptyWalkWins ==
    call.op = "collect_fdb" =>
        LET t == call.tables
            n == Len(call.walks)
            names == t.names.delivered
        IN  /\ call.switch_ip = "" => (call.entries = <<>> /\ n = 0)
            /\ call.walks = SubSeq(WalkOrder, 1, n)
            /\ (n > 0 /\ \A i \in 1..n : call.walks[i].error # "raise") =>
                   IF t.hw.rows # <<>>
                   THEN /\ n = 2
                        /\ call.entries = VlanWalkEntries("sw1", names, t.hw)
                   ELSE IF t.qb.rows # <<>>
                   THEN /\ n = 3
                        /\ call.entries = VlanWalkEntries("sw1", names, t.qb)
                   ELSE /\ n = 4
                        /\ call.entries = BridgeWalkEntries("sw1", names, t.br)

\* the Huawei walk gave nothing, the Q-Bridge walk one row, and the Bridge
\* MIB, which also has rows, was not walked
C30_Witness ==
    /\ call.op = "collect_fdb"
    /\ call.tables.hw = [rows |-> <<>>, error |-> "none"]
    /\ call.tables.qb = [rows |-> <<WalkRow1>>, error |-> "none"]
    /\ call.tables.br = [rows |-> <<WalkRow1, WalkRow2>>, error |-> "none"]
    /\ call.tables.names.error = "none"
    /\ Len(call.walks) = 3
    /\ call.entries = <<FDBEntry(Mac1, "sw1", Eth1, 10)>>

----
(* Claims about the process (SpecMain) *)

\* C16: a transport failure of the inventory client or a lookup miss never
\* aborts run_once: no call of run_once ends by raising.
C16_RunNeverAborts == pc # "failed"

\* C17: in daemon mode a run_once that raises does not end run_daemon: the
\* only step after it is the loop catching the exception and going on, the
\* process has not exited, and once the loop has gone on another run_once
\* can start.
C17_DaemonSurvives ==
    /\ []((call.daemon /\ call.phase = "exited") => ~ call.config_ok)
    /\ [][(call.daemon /\ pc = "failed") =>
            (pc' = "idle" /\ call'.phase = "running")]_vars
    /\ []((call.daemon /\ call.phase = "running" /\ pc = "idle"
                       /\ run < MaxMainRuns) => ENABLED MainStartRun)

\* after a run that raised, the daemon has completed another run
C17_Witness ==
    /\ call.daemon
    /\ call.raised = 1
    /\ run = 2
    /\ pc = "idle"
    /\ run_history.rows = 1

\* C18: in one-shot mode the exit code is 2 exactly when run_once returned
\* with errors > 0, 0 exactly when it returned with errors = 0, and 1
\* exactly when required configuration is missing or run_once raised.
C18_ExitCodes ==
    (call.phase = "exited" /\ ~ call.daemon) =>
        /\ call.exit_code \in {0, 1, 2}
        /\ call.exit_code = 2 <=>
                (call.config_ok /\ pc = "idle" /\ summary.errors > 0)
        /\ call.exit_code = 0 <=>
                (call.config_ok /\ pc = "idle" /\ summary.errors = 0)
        /\ call.exit_code = 1 <=> (~ call.config_ok \/ pc = "failed")

\* a one-shot run that counted an error has exited with code 2
C18_Witness ==
    /\ call.phase = "exited"
    /\ ~ call.daemon
    /\ run_history.rows = 1
    /\ summary.errors > 0
    /\ call.exit_code = 2

----
(* Claims about the state store as a resource of the process (SpecExit) *)

\* C34: once the service has opened the state store, the store is closed
\* on every exit path of the process: the end of a one-shot run, exit code
\* 2, a fatal exception (exit code 1), an interrupt in one-shot or daemon
\* mode; and it is not closed while the process runs.
C34_StoreClosedOnExit ==
    /\ (call.phase = "exited" /\ call.store # "unopened")
            => call.store = "closed"
    /\ call.phase = "running" => call.store = "open"

\* a daemon interrupted in the middle of a run, after an earlier run raised
C34_Witness ==
    /\ call.daemon
    /\ call.phase = "exited"
    /\ call.interrupted
    /\ call.raised = 1
    /\ pc = "interrupted"
    /\ idx > 0
    /\ call.store = "closed"

====
